---- MODULE Spec2Model ----
(***************************************************************************)
(* A model of the decision-fusion engine (utils/score_fusion.py), of the   *)
(* confidence-label mapping (utils/confidence_utils.py), of the fusion     *)
(* tool that wraps the engine (agent_engine/tools.py) and of the           *)
(* post-processing of an analysis (agent_engine/crew.py), of the flag      *)
(* classifier and profile selector (utils/profile_classifier.py), of the   *)
(* file cache (utils/cache.py), of the analysis endpoint that uses it      *)
(* (api.py) and of the parallel fetch (agent_engine/parallel_tools.py).    *)
(*                                                                         *)
(* Numbers.  The source computes in floating point.  Here a probability or *)
(* a gate is an integer count of 1/PROB (four decimals, the precision the  *)
(* source reports), the four-term product is kept exactly as a two-limb    *)
(* number in units of 1/PROB^4, and a confidence is an integer count of    *)
(* 1/CONF, a unit in which 0.7*(1 - D/60) + 0.3*q is exact for an integer  *)
(* spread D and a four-decimal quality q.  Scores are integers of 0..100.  *)
(*                                                                         *)
(* Labels.  The five action labels and the three confidence labels of the  *)
(* source are Korean strings; they are written here in ASCII:              *)
(*   "AggressiveBuy" = 적극적 매수   "Buy"  = 매수   "Hold" = 현상 유지    *)
(*   "Sell" = 매도                   "AggressiveSell" = 적극적 매도        *)
(*   "High" = 높음                   "Medium" = 중간   "Low" = 낮음        *)
(***************************************************************************)
EXTENDS Integers, Sequences, FiniteSets, TLC

VARIABLES
    args,      \* the arguments of the compute_probabilities call at hand
    res,       \* what that call returned; NoCall until it is made
    prev,      \* the call before it, its arguments and what it returned
    tool,      \* the arguments and the output of a DecisionFusionTool._run
    crew,      \* the inputs, the position and the result of run_agentic_analysis
    classifier, \* the clock and the calls of utils/profile_classifier.py
    calls,     \* the compute_probabilities calls that run concurrently
    cache,     \* the clock and the files of utils/cache.py
    api,       \* the requests analyze_stock has served
    fetch      \* the futures and the results of fetch_all_data_parallel

vars == <<args, res, prev, tool, crew, classifier, calls, cache, api, fetch>>

\* An Optional[...] of the source: None, or the value.
None == <<>>
Some(v) == <<v>>

NoCall == [called |-> FALSE]

-----------------------------------------------------------------------------
(* Fixed-point arithmetic *)

\* One unit of probability: round(x, 4).
PROB == 10000

\* One limb of the exact product: PROB^2.
LIMB == PROB * PROB

\* One unit of confidence: 60 (the spread divisor) times PROB.
CONF == 60 * PROB

\* a / b to the nearest integer (b > 0).
RoundDiv(a, b) == (2 * a + b) \div (2 * b)

\* a * b for 0 <= a, b <= 4 * LIMB, as <<hi, lo>> with a * b = hi * LIMB + lo.
Mul(a, b) ==
    LET a1 == a \div PROB
        a0 == a % PROB
        b1 == b \div PROB
        b0 == b % PROB
        mid == a1 * b0 + a0 * b1
        low == (mid % PROB) * PROB + a0 * b0
    IN  <<a1 * b1 + mid \div PROB + low \div LIMB, low % LIMB>>

\* p <= q for two-limb numbers.
Leq(p, q) == p[1] < q[1] \/ (p[1] = q[1] /\ p[2] <= q[2])

\* 16 * p for a two-limb number p <= LIMB^2.
Times16(p) == <<16 * p[1] + (16 * p[2]) \div LIMB, (16 * p[2]) % LIMB>>

\* The largest s of lo..hi with s^4 <= p16.
RECURSIVE Root4(_, _, _)
Root4(lo, hi, p16) ==
    IF lo >= hi THEN lo
    ELSE LET mid == (lo + hi + 1) \div 2
         IN  IF Leq(Mul(mid * mid, mid * mid), p16)
             THEN Root4(mid, hi, p16)
             ELSE Root4(lo, mid - 1, p16)

\* A variant of Pow025 that leaves the raw product unscaled: 2 * PROB * p.
Pow025_RawProduct(p) == (2 * p[1]) \div PROB

\* math.pow(p, 0.25) of a product p in units of 1/PROB^4, in half units of
\* 1/PROB: floor(2 * PROB * p^(1/4)).
Pow025(p) == Root4(0, 2 * PROB, Times16(p))

\* round(x, 4) of a value in half units of 1/PROB.
Round4(s) == (s + 1) \div 2

-----------------------------------------------------------------------------
(* utils/score_fusion.py *)

\* round(PROB * 1/(1 + exp(-(x - 50)/12))) for the scores x = 0..100.
SigmoidK12 == <<
     153, 166, 180, 195, 212, 230, 249, 270, 293, 318,
     344, 373, 404, 438, 474, 513, 555, 601, 650, 702,
     759, 819, 884, 953, 1028, 1107, 1192, 1282, 1378, 1480,
     1589, 1703, 1824, 1952, 2086, 2227, 2375, 2529, 2689, 2856,
     3029, 3208, 3392, 3582, 3775, 3973, 4174, 4378, 4584, 4792,
     5000, 5208, 5416, 5622, 5826, 6027, 6225, 6418, 6608, 6792,
     6971, 7144, 7311, 7471, 7625, 7773, 7914, 8048, 8176, 8297,
     8411, 8520, 8622, 8718, 8808, 8893, 8972, 9047, 9116, 9181,
     9241, 9298, 9350, 9399, 9445, 9487, 9526, 9562, 9596, 9627,
     9656, 9682, 9707, 9730, 9751, 9770, 9788, 9805, 9820, 9834,
     9847 >>

\* round(PROB * 1/(1 + exp(-(x - 50)/10))) for the scores x = 0..100.
SigmoidK10 == <<
     67, 74, 82, 90, 100, 110, 121, 134, 148, 163,
     180, 198, 219, 241, 266, 293, 323, 356, 392, 431,
     474, 522, 573, 630, 691, 759, 832, 911, 998, 1091,
     1192, 1301, 1419, 1545, 1680, 1824, 1978, 2142, 2315, 2497,
     2689, 2891, 3100, 3318, 3543, 3775, 4013, 4256, 4502, 4750,
     5000, 5250, 5498, 5744, 5987, 6225, 6457, 6682, 6900, 7109,
     7311, 7503, 7685, 7858, 8022, 8176, 8320, 8455, 8581, 8699,
     8808, 8909, 9002, 9089, 9168, 9241, 9309, 9370, 9427, 9478,
     9526, 9569, 9608, 9644, 9677, 9707, 9734, 9759, 9781, 9802,
     9820, 9837, 9852, 9866, 9879, 9890, 9900, 9910, 9918, 9926,
     9933 >>

\* The default calibration constants.
kM == 12
kI == 12
kS == 10
kT == 10

\* A variant of sigmoid that saturates beyond 2 instead of beyond 20.
sigmoid_EarlySaturation(num, k) ==
    IF num > 2 * k THEN PROB
    ELSE IF num < (0 - 2) * k THEN 0
    ELSE IF k = 12 THEN SigmoidK12[num + 51]
    ELSE SigmoidK10[num + 51]

\* sigmoid(num / k), for num = score - 50 and k one of the defaults.
sigmoid(num, k) ==
    IF num > 20 * k THEN PROB
    ELSE IF num < (0 - 20) * k THEN 0
    ELSE IF k = 12 THEN SigmoidK12[num + 51]
    ELSE SigmoidK10[num + 51]

\* A variant of clamp that forgets the upper limit.
clamp_NoUpper(val, min_val, max_val) ==
    IF min_val > val THEN min_val ELSE val

clamp(val, min_val, max_val) ==
    LET m == IF val < max_val THEN val ELSE max_val
    IN  IF min_val > m THEN min_val ELSE m

\* A variant of the fallback that takes the neutral 0.5 for a missing I.
IndustryProbability_Neutral(I, pS) ==
    IF I # None THEN sigmoid(I[1] - 50, kI) ELSE 5000

\* The industry probability: calibrated, or the stock's when I is missing.
IndustryProbability(I, pS) ==
    IF I # None THEN sigmoid(I[1] - 50, kI) ELSE pS

\* A variant of the market gate that closes as the market strengthens.
GateM_Inverted(pM) == clamp(RoundDiv((6500 - pM) * PROB, 3000), 0, PROB)

\* A variant of the market gate that never closes below a half.
GateM_HalfOpen(pM) == clamp(RoundDiv((pM - 3500) * PROB, 3000), 5000, PROB)

\* gM = clamp((pM - 0.35) / 0.30, 0.0, 1.0)
GateM(pM) == clamp(RoundDiv((pM - 3500) * PROB, 3000), 0, PROB)

\* gI = clamp((pI_given_M - 0.40) / 0.25, 0.0, 1.0)
GateI(pI_given_M) ==
    clamp(RoundDiv((pI_given_M - 4000) * PROB, 2500), 0, PROB)

\* A variant of GateT without the floor of 0.2.
GateT_NoFloor(pM) == clamp(RoundDiv((pM - 4000) * PROB, 3000), 0, PROB)

\* gT = clamp((pM - 0.40) / 0.30, 0.2, 1.0)
GateT(pM) == clamp(RoundDiv((pM - 4000) * PROB, 3000), 2000, PROB)

\* A variant of the conditioning with the sign of the deviation flipped.
Conditioned_Flipped(p, gate) == 5000 - RoundDiv((p - 5000) * gate, PROB)

\* p_cond = 0.5 + (p_target - 0.5) * gate
\* A variant that leaves the probability as it is, whatever the gate.
Conditioned_Ungated(p, gate) == p

\* A variant of the weak-sector test that also takes an absent industry
\* score for a weak sector.
RelativeStrength_AlsoFallback(I, S) == (I = None \/ I[1] < 30) /\ S > 75

\* E-2. Sector Weakness / Stock Strength deviation
RelativeStrength(I, S) == I # None /\ I[1] < 30 /\ S > 75

Conditioned(p, gate) == 5000 + RoundDiv((p - 5000) * gate, PROB)

\* Step 5, the decision grade of p_up, given in half units of 1/PROB.
DecisionGrade(p_up) ==
    IF p_up >= 19000 THEN "AggressiveBuy"
    ELSE IF p_up >= 14000 THEN "Buy"
    ELSE IF p_up >= 8000 THEN "Hold"
    ELSE IF p_up >= 2000 THEN "Sell"
    ELSE "AggressiveSell"

grade_order == <<"AggressiveBuy", "Buy", "Hold", "Sell", "AggressiveSell">>

\* grade_order.index(action), from 0.
GradeIndex(action) == (CHOOSE i \in 1..5 : grade_order[i] = action) - 1

\* A variant of the step down that stays on the grade it is given.
RiskOffStep_NoShift(action) ==
    LET idx == (CHOOSE i \in 1..5 : grade_order[i] = action) - 1
    IN  grade_order[idx + 1]

\* E-1, the step down of the action when M < 25.
RiskOffStep(action) ==
    LET idx == GradeIndex(action)
        new_idx == IF idx + 1 < 4 THEN idx + 1 ELSE 4
    IN  grade_order[new_idx + 1]

MaxOf(a, b) == IF a >= b THEN a ELSE b
MinOf(a, b) == IF a <= b THEN a ELSE b

\* utils/confidence_utils.py: map_confidence_level, for a confidence given
\* as a count of 1/unit.
\* A variant of map_confidence_level with the thresholds 0.75 and 0.45.
map_confidence_level_Lower(confidence, unit) ==
    IF 100 * confidence >= 75 * unit THEN "High"
    ELSE IF 100 * confidence >= 45 * unit THEN "Medium"
    ELSE "Low"

map_confidence_level(confidence, unit) ==
    IF 100 * confidence >= 85 * unit THEN "High"
    ELSE IF 100 * confidence >= 70 * unit THEN "Medium"
    ELSE "Low"

\* compute_probabilities(M, I, S, T, conf_quality) with the default k_params.
\* conf_quality is a count of 1/PROB.
compute_probabilities(M, I, S, T, conf_quality) ==
    LET pM == sigmoid(M - 50, kM)
        pS == sigmoid(S - 50, kS)
        pT == sigmoid(T - 50, kT)
        pI == IndustryProbability(I, pS)
        I_val_for_conf == IF I # None THEN I[1] ELSE S
        gM == GateM(pM)
        pI_given_M == Conditioned(pI, gM)
        gI == GateI(pI_given_M)
        pS_given_I == Conditioned(pS, gI)
        gT == GateT(pM)
        pT_adj == Conditioned(pT, gT)
        p_product == Mul(pM * pI_given_M, pS_given_I * pT_adj)
        p_up == Pow025(p_product)
        band == DecisionGrade(p_up)
        action == IF M < 25 THEN RiskOffStep(band) ELSE band
        flags1 == IF M < 25
                  THEN <<"risk_off_adjusted: " \o band \o "->" \o action>>
                  ELSE <<>>
        flags2 == IF RelativeStrength(I, S)
                  THEN Append(flags1, "flag_relative_strength_in_weak_sector")
                  ELSE flags1
        flags == IF I = None
                 THEN Append(flags2, "industry_score_fallback")
                 ELSE flags2
        D == MaxOf(MaxOf(M, I_val_for_conf), MaxOf(S, T))
             - MinOf(MinOf(M, I_val_for_conf), MinOf(S, T))
        conf_agree == CONF - clamp(D * PROB, 0, CONF)
        confidence == (7 * conf_agree + 3 * 60 * conf_quality) \div 10
        conf_level == map_confidence_level(confidence, CONF)
    IN  [called |-> TRUE,
         p_up |-> Round4(p_up),
         action |-> action,
         confidence |-> RoundDiv(confidence, 60),
         confidence_level |-> conf_level,
         breakdown |-> [pM |-> pM, pI |-> pI, pS |-> pS, pT |-> pT,
                        pI_given_M |-> pI_given_M, pS_given_I |-> pS_given_I,
                        pT_adj |-> pT_adj, gM |-> gM, gI |-> gI, gT |-> gT,
                        p_product |-> p_product, flags |-> flags],
         inputs |-> [M |-> M, I |-> I, S |-> S, T |-> T]]

-----------------------------------------------------------------------------
(* The fusion engine called on a grid of arguments *)

\* The scores are the landmark values the decision rules turn on, and a
\* lattice of ScoreSteps equal steps over 0..100 for the market score.
ScoreSteps == 4

Lattice == {(100 * i) \div ScoreSteps : i \in 0..ScoreSteps}

MScores == {0, 10, 24, 25, 42, 43, 50, 80, 90, 100} \cup Lattice
IScores == {None} \cup {Some(v) : v \in {0, 10, 29, 30, 50, 70, 90, 100}}
SScores == {0, 10, 50, 75, 76, 90, 100}
TScores == {0, 10, 50, 60, 90, 100}
Qualities == {0, 4999, 5000, 10000}

Arguments ==
    [M : MScores, I : IScores, S : SScores, T : TScores,
     conf_quality : Qualities]

Idle == [called |-> FALSE]

\* One call of compute_probabilities on the arguments at hand.
Call ==
    /\ ~res.called
    /\ res' = compute_probabilities(args.M, args.I, args.S, args.T,
                                    args.conf_quality)
    /\ UNCHANGED <<args, prev, tool, crew, classifier, calls, cache, api, fetch>>

\* The call that follows, args' being the arguments at hand with one changed.
Again ==
    /\ ~prev.called
    /\ prev' = [called |-> TRUE, args |-> args, res |-> res]
    /\ res' = compute_probabilities(args'.M, args'.I, args'.S, args'.T,
                                    args'.conf_quality)
    /\ UNCHANGED <<tool, crew, classifier, calls, cache, api, fetch>>

RecallM ==
    /\ res.called
    /\ \E v \in MScores \ {args.M} : args' = [args EXCEPT !.M = v]
    /\ Again

RecallI ==
    /\ res.called
    /\ \E v \in IScores \ {args.I} : args' = [args EXCEPT !.I = v]
    /\ Again

RecallS ==
    /\ res.called
    /\ \E v \in SScores \ {args.S} : args' = [args EXCEPT !.S = v]
    /\ Again

RecallT ==
    /\ res.called
    /\ \E v \in TScores \ {args.T} : args' = [args EXCEPT !.T = v]
    /\ Again

RecallQ ==
    /\ res.called
    /\ \E v \in Qualities \ {args.conf_quality} :
          args' = [args EXCEPT !.conf_quality = v]
    /\ Again

FusionInit ==
    /\ args \in Arguments
    /\ res = NoCall
    /\ prev = NoCall
    /\ cache = Idle
    /\ api = Idle
    /\ fetch = Idle
    /\ tool = Idle
    /\ crew = Idle
    /\ classifier = Idle
    /\ calls = Idle

FusionNext == Call \/ RecallM \/ RecallI \/ RecallS \/ RecallT \/ RecallQ

SpecFusion == FusionInit /\ [][FusionNext]_vars

-----------------------------------------------------------------------------
(* agent_engine/tools.py: DecisionFusionTool *)

\* An argument of _run: a number of the 0-10 scale, a string that reads as
\* one, a string that does not, or None.
Float(v) == [kind |-> "float", v |-> v]
NumStr(v) == [kind |-> "numstr", v |-> v]
Text == [kind |-> "text"]
Missing == [kind |-> "none"]

ToolScores == {0, 2, 5, 8, 10}

ToolValues ==
    {Float(v) : v \in ToolScores} \cup {NumStr(5), Text, Missing}

ToolArguments ==
    [market_score : ToolValues, company_score : ToolValues,
     outlook_score : ToolValues, industry_score : ToolValues]

\* float(x): the value, or the exception it raises.
ToFloat(x) ==
    CASE x.kind = "float" -> [ok |-> TRUE, v |-> x.v]
      [] x.kind = "numstr" -> [ok |-> TRUE, v |-> x.v]
      [] x.kind = "text" -> [ok |-> FALSE, exc |-> "ValueError"]
      [] x.kind = "none" -> [ok |-> FALSE, exc |-> "TypeError"]

\* f"{x:.1f}" raises for a string.
Formats(x) == x.kind = "float"

\* THRESHOLDS REFERENCE, as the output prints it: the least p_up of each
\* label but the last ("PassiveBuy" = 소극적 매수, "PassiveSell" = 소극적
\* 매도), and the label below them all.
ThresholdsReference ==
    [steps |-> <<[at |-> 6200, action |-> "AggressiveBuy"],
                 [at |-> 5700, action |-> "PassiveBuy"],
                 [at |-> 4700, action |-> "Hold"],
                 [at |-> 4200, action |-> "PassiveSell"]>>,
     below |-> "AggressiveSell"]

\* The output written for a result of compute_probabilities.
ToolOutput(result) ==
    [error |-> None,
     final_action |-> result.action,
     p_up |-> Some(result.p_up),
     confidence |-> result.confidence,
     confidence_level |-> Some(result.confidence_level),
     thresholds_reference |-> ThresholdsReference,
     flags |-> result.breakdown.flags]

\* A variant of the handler's output that falls back to a neutral Hold.
FusionFailed_DefaultHold(e) ==
    [error |-> None,
     final_action |-> "Hold",
     p_up |-> Some(5000),
     confidence |-> 5000,
     confidence_level |-> Some("Low"),
     flags |-> <<>>]

\* The output the exception handler writes for the exception e.
FusionFailed(e) ==
    [error |-> Some(e),
     final_action |-> "analysis_failed",
     p_up |-> None,
     confidence |-> 0,
     confidence_level |-> None,
     flags |-> <<"fusion_error", e>>]

\* The body of the try block: its output, or the exception it raises.
FusionBody(a) ==
    LET m == ToFloat(a.market_score)
        c == ToFloat(a.company_score)
        o == ToFloat(a.outlook_score)
        i == ToFloat(a.industry_score)
    IN  IF ~m.ok THEN m
        ELSE IF ~c.ok THEN c
        ELSE IF ~o.ok THEN o
        ELSE IF a.industry_score # Missing /\ ~i.ok THEN i
        ELSE LET M == m.v * 10
                 S == c.v * 10
                 T == o.v * 10
                 I == IF a.industry_score # Missing THEN i.v * 10 ELSE S
                 result == compute_probabilities(M, Some(I), S, T, PROB)
                 \* not industry_score: None, 0.0 or an empty string
                 shown == /\ a.industry_score # Missing
                          /\ a.industry_score # Float(0)
             IN  IF /\ Formats(a.market_score)
                    /\ shown => Formats(a.industry_score)
                    /\ Formats(a.company_score)
                    /\ Formats(a.outlook_score)
                 THEN [ok |-> TRUE, v |-> ToolOutput(result)]
                 ELSE [ok |-> FALSE, exc |-> "ValueError"]

\* except Exception: every exception the body raises is caught.
Caught(exc) == exc \in {"ValueError", "TypeError", "ZeroDivisionError"}

\* DecisionFusionTool._run: what it returns, or the exception that leaves it.
DecisionFusionTool_run(a) ==
    LET body == FusionBody(a)
    IN  IF body.ok THEN [returned |-> Some(body.v), raised |-> None]
        ELSE IF Caught(body.exc)
        THEN [returned |-> Some(FusionFailed(body.exc)), raised |-> None]
        ELSE [returned |-> None, raised |-> Some(body.exc)]

ToolRun ==
    /\ ~tool.called
    /\ tool' = [called |-> TRUE, args |-> tool.args,
                out |-> DecisionFusionTool_run(tool.args)]
    /\ UNCHANGED <<args, res, prev, crew, classifier, calls, cache, api, fetch>>

NoArguments ==
    [M |-> 50, I |-> None, S |-> 50, T |-> 50, conf_quality |-> PROB]

ToolInit ==
    /\ \E a \in ToolArguments : tool = [called |-> FALSE, args |-> a]
    /\ args = NoArguments
    /\ res = NoCall
    /\ prev = NoCall
    /\ cache = Idle
    /\ api = Idle
    /\ fetch = Idle
    /\ crew = Idle
    /\ classifier = Idle
    /\ calls = Idle

ToolNext == ToolRun

SpecTool == ToolInit /\ [][ToolNext]_vars

-----------------------------------------------------------------------------
(* agent_engine/crew.py: run_agentic_analysis *)

Levels == {"High", "Medium", "Low"}

\* Confidences a report or a strategy log may state, as counts of 1/PROB.
Confidences == {3000, 6900, 7000, 8400, 8500, 9500}

\* The report parse_crew_output returns: the fallback response carries
\* neither a confidence nor a level; a parsed report may carry a confidence,
\* and with it a level, which is then the level of that confidence.
Reports ==
    {[confidence |-> None, confidence_level |-> None]}
    \cup {[confidence |-> Some(c), confidence_level |-> None] :
             c \in Confidences}
    \cup {[confidence |-> Some(c),
           confidence_level |-> Some(map_confidence_level(c, PROB))] :
             c \in Confidences}

\* What the regular expressions find in the strategy log: the action of
\* "Strategy Opinion", and the number of "Confidence", which float() may
\* reject (conf_ok FALSE, as for "." or "1.2.3").
StrategyLogs ==
    [action : {None, Some("Buy"), Some("Hold")},
     conf : {None} \cup {Some(c) : c \in Confidences},
     conf_ok : BOOLEAN]

\* The action of "Final Decision" in the risk advisor's log, if any.
RiskActions == {None, Some("Buy"), Some("Hold")}

CrewInputs ==
    [report : Reports,
     strategy_log : {None} \cup {Some(l) : l \in StrategyLogs},
     risk_action : RiskActions]

\* 1. Extract SSOT from Strategy Agent: the confidence after the overwrite.
SsotConfidence(report, strategy_log) ==
    IF strategy_log # None
       /\ strategy_log[1].conf # None /\ strategy_log[1].conf_ok
    THEN strategy_log[1].conf
    ELSE report.confidence

ssot_action(strategy_log) ==
    IF strategy_log # None THEN strategy_log[1].action ELSE None

\* 2. Check for Disagreements
model_disagreement(strategy_log, risk_action) ==
    /\ ssot_action(strategy_log) # None
    /\ risk_action # None
    /\ ssot_action(strategy_log) # risk_action

\* 3. Apply Penalties: min(cur_conf, 0.69), cur_conf defaulting to 0.5.
PenaltyConfidence(confidence) ==
    LET cur_conf == IF confidence # None THEN confidence[1] ELSE 5000
    IN  Some(IF cur_conf < 6900 THEN cur_conf ELSE 6900)

\* 3. Apply Penalties: the level one step down, cur_level defaulting to
\* Medium; a level that is absent stays absent unless it is downgraded.
PenaltyLevel(confidence_level) ==
    LET cur_level ==
            IF confidence_level # None THEN confidence_level[1] ELSE "Medium"
    IN  IF cur_level = "High" THEN Some("Medium")
        ELSE IF cur_level = "Medium" THEN Some("Low")
        ELSE confidence_level

\* run_agentic_analysis, from the parsed report to the returned result.
run_agentic_analysis(in) ==
    LET conf == SsotConfidence(in.report, in.strategy_log)
        disagree == model_disagreement(in.strategy_log, in.risk_action)
    IN  [confidence |-> IF disagree THEN PenaltyConfidence(conf) ELSE conf,
         confidence_level |->
             IF disagree THEN PenaltyLevel(in.report.confidence_level)
             ELSE in.report.confidence_level,
         action |-> ssot_action(in.strategy_log),
         model_disagreement |-> disagree]

CrewRun ==
    /\ ~crew.called
    /\ crew' = [called |-> TRUE, in |-> crew.in,
                result |-> run_agentic_analysis(crew.in)]
    /\ UNCHANGED <<args, res, prev, tool, classifier, calls, cache, api, fetch>>

CrewInit ==
    /\ \E in \in CrewInputs : crew = [called |-> FALSE, in |-> in]
    /\ args = NoArguments
    /\ res = NoCall
    /\ prev = NoCall
    /\ cache = Idle
    /\ api = Idle
    /\ fetch = Idle
    /\ tool = Idle
    /\ classifier = Idle
    /\ calls = Idle

CrewNext == CrewRun

SpecCrew == CrewInit /\ [][CrewNext]_vars

-----------------------------------------------------------------------------
(* utils/profile_classifier.py: get_action_profile *)

\* The flags get_action_profile tests for.
RuleFlags ==
    {"TECH_EXTREME_OVERBOUGHT", "TREND_UP_STRONG", "MOMENTUM_SPIKE",
     "MOMENTUM_UP", "VALUATION_EXPENSIVE", "TECH_OVERSOLD", "VALUATION_CHEAP",
     "QUALITY_WEAK", "TREND_DOWN", "QUALITY_STRONG", "VOLATILITY_LOW",
     "MARKET_RISK_OFF", "NEWS_POSITIVE_EVENT", "NEWS_NEGATIVE_EVENT",
     "VOLATILITY_HIGH", "SPIKE_UP", "SPIKE_DOWN", "TECH_OVERBOUGHT"}

\* The flags generate_semantic_flags emits, in the order of its rules.
FlagOrder ==
    <<"TREND_UP_STRONG", "TREND_DOWN", "RANGE_BOUND",
      "MOMENTUM_SPIKE", "SPIKE_UP", "MOMENTUM_UP", "MOMENTUM_DOWN",
      "SPIKE_DOWN",
      "TECH_EXTREME_OVERBOUGHT", "TECH_OVERBOUGHT", "TECH_EXTREME_OVERSOLD",
      "TECH_OVERSOLD",
      "VOLATILITY_HIGH", "VOLATILITY_LOW",
      "VALUATION_EXPENSIVE", "VALUATION_CHEAP",
      "QUALITY_STRONG", "QUALITY_WEAK",
      "MARKET_RISK_OFF", "MARKET_RISK_ON",
      "NEWS_POSITIVE_EVENT", "NEWS_NEGATIVE_EVENT", "NEWS_MIXED_OR_THIN",
      "NEWS_LOW_RELEVANCE", "NEUTRAL_SIGNAL">>

FlagVocabulary == {FlagOrder[i] : i \in 1..Len(FlagOrder)}

\* The static template of a profile: its id and its decision_action
\* ("Hold" = 현상 유지, "Buy" = 매수, "AgileResponse" = 기민한 대응 필요,
\* "Wait" = 관망).
Profile(id) ==
    [id |-> id,
     decision_action |->
         CASE id \in {"EXTREME_OVERBOUGHT_PAUSE", "RISK_OFF_DEFENSIVE"} ->
                  "Hold"
           [] id \in {"MOMENTUM_CHASER", "VALUE_RECOVERY",
                      "QUALITY_COMPOUNDER", "OVERBOUGHT_CAUTIOUS"} -> "Buy"
           [] id = "EVENT_DRIVEN" -> "AgileResponse"
           [] OTHER -> "Wait"]

\* A variant of get_action_profile that tests for the quality compounder
\* before the value recovery.
get_action_profile_QualityFirst(flags, rsi) ==
    LET flag_set == {flags[i] : i \in 1..Len(flags)}
    IN  IF "TECH_EXTREME_OVERBOUGHT" \in flag_set
        THEN Profile("EXTREME_OVERBOUGHT_PAUSE")
        ELSE IF /\ "QUALITY_STRONG" \in flag_set
                /\ "VOLATILITY_LOW" \in flag_set
                /\ "TREND_DOWN" \notin flag_set
        THEN Profile("QUALITY_COMPOUNDER")
        ELSE IF /\ "TREND_UP_STRONG" \in flag_set
                /\ ("MOMENTUM_SPIKE" \in flag_set
                    \/ "MOMENTUM_UP" \in flag_set)
                /\ "VALUATION_EXPENSIVE" \notin flag_set
        THEN Profile("MOMENTUM_CHASER")
        ELSE IF /\ ("TECH_OVERSOLD" \in flag_set
                    \/ "VALUATION_CHEAP" \in flag_set)
                /\ "QUALITY_WEAK" \notin flag_set
                /\ "TREND_DOWN" \notin flag_set
        THEN Profile("VALUE_RECOVERY")
        ELSE Profile("NEUTRAL_WAIT")

\* A variant of the selector whose first rule also looks at the RSI it is
\* given.
get_action_profile_ReadsRsi(flags, rsi) ==
    LET flag_set == {flags[i] : i \in 1..Len(flags)}
    IN  IF \/ "TECH_EXTREME_OVERBOUGHT" \in flag_set
           \/ (rsi # None /\ rsi[1] >= 80)
        THEN Profile("EXTREME_OVERBOUGHT_PAUSE")
        ELSE IF /\ "TREND_UP_STRONG" \in flag_set
                /\ ("MOMENTUM_SPIKE" \in flag_set
                    \/ "MOMENTUM_UP" \in flag_set)
                /\ "VALUATION_EXPENSIVE" \notin flag_set
                /\ "TECH_EXTREME_OVERBOUGHT" \notin flag_set
        THEN Profile("MOMENTUM_CHASER")
        ELSE IF /\ ("TECH_OVERSOLD" \in flag_set
                    \/ "VALUATION_CHEAP" \in flag_set)
                /\ "QUALITY_WEAK" \notin flag_set
                /\ "TREND_DOWN" \notin flag_set
        THEN Profile("VALUE_RECOVERY")
        ELSE IF /\ "QUALITY_STRONG" \in flag_set
                /\ "VOLATILITY_LOW" \in flag_set
                /\ "TREND_DOWN" \notin flag_set
        THEN Profile("QUALITY_COMPOUNDER")
        ELSE IF /\ "MARKET_RISK_OFF" \in flag_set
                /\ ("VOLATILITY_LOW" \in flag_set
                    \/ "QUALITY_STRONG" \in flag_set)
        THEN Profile("RISK_OFF_DEFENSIVE")
        ELSE IF /\ ("NEWS_POSITIVE_EVENT" \in flag_set
                    \/ "NEWS_NEGATIVE_EVENT" \in flag_set)
                /\ ("VOLATILITY_HIGH" \in flag_set
                    \/ "SPIKE_UP" \in flag_set
                    \/ "SPIKE_DOWN" \in flag_set)
        THEN Profile("EVENT_DRIVEN")
        ELSE IF /\ "TECH_OVERBOUGHT" \in flag_set
                /\ "TECH_EXTREME_OVERBOUGHT" \notin flag_set
        THEN Profile("OVERBOUGHT_CAUTIOUS")
        ELSE Profile("NEUTRAL_WAIT")

\* get_action_profile(flags, rsi): flags is a list; rsi is not read.
get_action_profile(flags, rsi) ==
    LET flag_set == {flags[i] : i \in 1..Len(flags)}
    IN  IF "TECH_EXTREME_OVERBOUGHT" \in flag_set
        THEN Profile("EXTREME_OVERBOUGHT_PAUSE")
        ELSE IF /\ "TREND_UP_STRONG" \in flag_set
                /\ ("MOMENTUM_SPIKE" \in flag_set
                    \/ "MOMENTUM_UP" \in flag_set)
                /\ "VALUATION_EXPENSIVE" \notin flag_set
                /\ "TECH_EXTREME_OVERBOUGHT" \notin flag_set
        THEN Profile("MOMENTUM_CHASER")
        ELSE IF /\ ("TECH_OVERSOLD" \in flag_set
                    \/ "VALUATION_CHEAP" \in flag_set)
                /\ "QUALITY_WEAK" \notin flag_set
                /\ "TREND_DOWN" \notin flag_set
        THEN Profile("VALUE_RECOVERY")
        ELSE IF /\ "QUALITY_STRONG" \in flag_set
                /\ "VOLATILITY_LOW" \in flag_set
                /\ "TREND_DOWN" \notin flag_set
        THEN Profile("QUALITY_COMPOUNDER")
        ELSE IF /\ "MARKET_RISK_OFF" \in flag_set
                /\ ("VOLATILITY_LOW" \in flag_set
                    \/ "QUALITY_STRONG" \in flag_set)
        THEN Profile("RISK_OFF_DEFENSIVE")
        ELSE IF /\ ("NEWS_POSITIVE_EVENT" \in flag_set
                    \/ "NEWS_NEGATIVE_EVENT" \in flag_set)
                /\ ("VOLATILITY_HIGH" \in flag_set
                    \/ "SPIKE_UP" \in flag_set
                    \/ "SPIKE_DOWN" \in flag_set)
        THEN Profile("EVENT_DRIVEN")
        ELSE IF /\ "TECH_OVERBOUGHT" \in flag_set
                /\ "TECH_EXTREME_OVERBOUGHT" \notin flag_set
        THEN Profile("OVERBOUGHT_CAUTIOUS")
        ELSE Profile("NEUTRAL_WAIT")

\* The flags of a set as a list, in the order of FlagOrder.
Ascending(flag_set) == SelectSeq(FlagOrder, LAMBDA f : f \in flag_set)

Reversed(list) == [i \in 1..Len(list) |-> list[Len(list) + 1 - i]]

\* The ways a caller lists a set of flags: in either order, with every flag
\* twice, or with the flags get_action_profile does not test for among them.
Arrangements == {"ascending", "descending", "doubled", "with_others"}

Listing(flag_set, arrangement) ==
    CASE arrangement = "ascending" -> Ascending(flag_set)
      [] arrangement = "descending" -> Reversed(Ascending(flag_set))
      [] arrangement = "doubled" ->
             Ascending(flag_set) \o Reversed(Ascending(flag_set))
      [] OTHER -> Ascending(flag_set \cup (FlagVocabulary \ RuleFlags))

\* The rsi argument: left out (rsi=None) or a reading in the extreme
\* overbought range.
RsiArguments == {None, Some(85)}

\* One call of get_action_profile on a listing of the flag set at hand.
SelectProfile ==
    /\ ~classifier.called
    /\ \E arrangement \in Arrangements, rsi \in RsiArguments :
          LET flags == Listing(classifier.flag_set, arrangement)
          IN  classifier' =
                  [called |-> TRUE, flag_set |-> classifier.flag_set,
                   flags |-> flags, rsi |-> rsi,
                   profile |-> get_action_profile(flags, rsi),
                   again |-> None]
    /\ UNCHANGED <<args, res, prev, tool, crew, calls, cache, api, fetch>>

\* A second call on the same list with another rsi argument.
SelectProfileAgain ==
    /\ classifier.called
    /\ classifier.again = None
    /\ \E rsi \in RsiArguments \ {classifier.rsi} :
          classifier' =
              [classifier EXCEPT
                  !.again =
                      Some([rsi |-> rsi,
                            profile |->
                                get_action_profile(classifier.flags, rsi)])]
    /\ UNCHANGED <<args, res, prev, tool, crew, calls, cache, api, fetch>>

ProfileInit ==
    /\ \E flag_set \in SUBSET RuleFlags :
          classifier = [called |-> FALSE, flag_set |-> flag_set]
    /\ args = NoArguments
    /\ res = NoCall
    /\ prev = NoCall
    /\ cache = Idle
    /\ api = Idle
    /\ fetch = Idle
    /\ tool = Idle
    /\ crew = Idle
    /\ calls = Idle

ProfileNext == SelectProfile \/ SelectProfileAgain

SpecProfile == ProfileInit /\ [][ProfileNext]_vars

-----------------------------------------------------------------------------
(* utils/profile_classifier.py: calculate_news_relevance_score and
   generate_semantic_flags *)

\* A float that is not a number, and a publish time in hours.
NaN == [kind |-> "nan"]
At(h) == [kind |-> "time", v |-> h]

\* What calculate_news_relevance_score reads of a news item: whether the
\* ticker or the company name is in its text, whether a strong event is,
\* whether its title is a listing of many stocks, its publish time (Missing,
\* Text that the parser rejects, or At an hour), and how many positive and
\* negative keywords its title holds.
Sentiments == {<<0, 0>>, <<1, 0>>, <<0, 1>>, <<1, 1>>, <<2, 1>>, <<1, 2>>}

NewsItems ==
    [direct : BOOLEAN, event : BOOLEAN, listing : BOOLEAN,
     published_at : {Missing, Text, At(90), At(50)},
     keywords : Sentiments]

\* The recency bonus in tenths: 0.2 within 24 hours, 0.1 within 72.
Recency(published_at, now) ==
    IF published_at.kind # "time" THEN 0
    ELSE LET hours_ago == now - published_at.v
         IN  IF hours_ago < 24 THEN 2
             ELSE IF hours_ago < 72 THEN 1
             ELSE 0

\* calculate_news_relevance_score, in tenths, at the time the clock shows.
calculate_news_relevance_score(news_item, now) ==
    LET score == (IF news_item.direct THEN 4 ELSE 0)
                 + (IF news_item.event THEN 3 ELSE 0)
                 - (IF news_item.listing THEN 3 ELSE 0)
                 + Recency(news_item.published_at, now)
    IN  MaxOf(0, MinOf(10, score))

\* A variant of TopIndex that takes the last item of the list.
TopIndex_Last(scores) == Len(scores)

\* scored_news.sort(key=lambda x: x[1], reverse=True); scored_news[0]: the
\* sort is stable, so the first item of the highest score.
TopIndex(scores) ==
    CHOOSE i \in 1..Len(scores) :
        /\ \A j \in 1..Len(scores) : scores[j] <= scores[i]
        /\ \A j \in 1..(i - 1) : scores[j] < scores[i]

\* ROE as a percentage, roe being a count of 1/1000:
\* roe * 100 if roe < 1.0 else roe, in thousandths of a percent.
roe_pct(roe) == IF roe < 1000 THEN roe * 100 ELSE roe

\* A variant of the RSI rules in which the extreme flags come with the
\* plain ones.
TechnicalFlags_Cumulative(rsi) ==
    IF rsi >= 80 THEN <<"TECH_EXTREME_OVERBOUGHT", "TECH_OVERBOUGHT">>
    ELSE IF rsi >= 70 THEN <<"TECH_OVERBOUGHT">>
    ELSE IF rsi <= 20 THEN <<"TECH_EXTREME_OVERSOLD", "TECH_OVERSOLD">>
    ELSE IF rsi <= 30 THEN <<"TECH_OVERSOLD">>
    ELSE <<>>

\* 3. TECHNICAL FLAGS (RSI)
TechnicalFlags(rsi) ==
    IF rsi >= 80 THEN <<"TECH_EXTREME_OVERBOUGHT">>
    ELSE IF rsi >= 70 THEN <<"TECH_OVERBOUGHT">>
    ELSE IF rsi <= 20 THEN <<"TECH_EXTREME_OVERSOLD">>
    ELSE IF rsi <= 30 THEN <<"TECH_OVERSOLD">>
    ELSE <<>>

IsNumber(x) == x.kind = "float"

\* Sections 1 to 7 of generate_semantic_flags: the flags of the thresholds.
ThresholdFlags(f) ==
    LET trend == IF f.ret_3m > 20 THEN <<"TREND_UP_STRONG">>
                 ELSE IF f.ret_3m < -15 THEN <<"TREND_DOWN">>
                 ELSE IF -5 < f.ret_3m /\ f.ret_3m < 5 THEN <<"RANGE_BOUND">>
                 ELSE <<>>
        momentum == IF f.ret_1m > 15 THEN <<"MOMENTUM_SPIKE", "SPIKE_UP">>
                    ELSE IF f.ret_1m > 5 THEN <<"MOMENTUM_UP">>
                    ELSE IF f.ret_1m < -15
                    THEN <<"MOMENTUM_DOWN", "SPIKE_DOWN">>
                    ELSE IF f.ret_1m < -5 THEN <<"MOMENTUM_DOWN">>
                    ELSE <<>>
        technical == TechnicalFlags(f.rsi)
        vol == IF f.volatility > 50 THEN <<"VOLATILITY_HIGH">>
               ELSE IF f.volatility < 20 THEN <<"VOLATILITY_LOW">>
               ELSE <<>>
        valuation ==
            IF ~IsNumber(f.pe) THEN <<>>
            ELSE IF f.is_korean
            THEN (IF f.pe.v > 25 THEN <<"VALUATION_EXPENSIVE">>
                  ELSE IF f.pe.v < 8 THEN <<"VALUATION_CHEAP">>
                  ELSE <<>>)
            ELSE (IF f.pe.v > 35 THEN <<"VALUATION_EXPENSIVE">>
                  ELSE IF f.pe.v < 12 THEN <<"VALUATION_CHEAP">>
                  ELSE <<>>)
        quality ==
            IF ~IsNumber(f.roe) THEN <<>>
            ELSE IF roe_pct(f.roe.v) > 20000 THEN <<"QUALITY_STRONG">>
            ELSE IF roe_pct(f.roe.v) < 5000 THEN <<"QUALITY_WEAK">>
            ELSE <<>>
        market ==
            IF ~IsNumber(f.vix_or_vkospi) THEN <<>>
            ELSE IF f.vix_or_vkospi.v > 25 THEN <<"MARKET_RISK_OFF">>
            ELSE IF f.vix_or_vkospi.v < 15 THEN <<"MARKET_RISK_ON">>
            ELSE <<>>
    IN  trend \o momentum \o technical \o vol \o valuation \o quality
        \o market

\* Section 8 of generate_semantic_flags: the news flag and the news analysis.
NewsAnalysis(news_list, now) ==
    IF news_list = None \/ Len(news_list[1]) = 0
    THEN [flag |-> "NEWS_MIXED_OR_THIN",
          news_analysis |-> [top_news |-> None, relevance_score |-> 0,
                             is_relevant |-> FALSE, sentiment |-> "NEUTRAL"]]
    ELSE LET items == news_list[1]
             scores == [i \in 1..Len(items) |->
                           calculate_news_relevance_score(items[i], now)]
             top == TopIndex(scores)
             top_score == scores[top]
             pos_count == items[top].keywords[1]
             neg_count == items[top].keywords[2]
             sentiment ==
                 IF top_score >= 3
                 THEN (IF pos_count > neg_count /\ pos_count >= 1
                       THEN <<"NEWS_POSITIVE_EVENT", "POSITIVE">>
                       ELSE IF neg_count > pos_count /\ neg_count >= 1
                       THEN <<"NEWS_NEGATIVE_EVENT", "NEGATIVE">>
                       ELSE <<"NEWS_MIXED_OR_THIN", "NEUTRAL">>)
                 ELSE <<"NEWS_LOW_RELEVANCE", "LOW_RELEVANCE">>
         IN  [flag |-> sentiment[1],
              news_analysis |-> [top_news |-> Some(items[top]),
                                 relevance_score |-> top_score,
                                 is_relevant |-> top_score >= 3,
                                 sentiment |-> sentiment[2]]]

\* A variant of the floor that appends NEUTRAL_SIGNAL until there are three.
FlagFloor_Padded(flags) ==
    IF Len(flags) = 0
    THEN <<"NEUTRAL_SIGNAL", "NEUTRAL_SIGNAL", "NEUTRAL_SIGNAL">>
    ELSE IF Len(flags) = 1
    THEN flags \o <<"NEUTRAL_SIGNAL", "NEUTRAL_SIGNAL">>
    ELSE IF Len(flags) = 2 THEN Append(flags, "NEUTRAL_SIGNAL")
    ELSE flags

\* "Ensure minimum 3 flags": one NEUTRAL_SIGNAL when there are fewer.
FlagFloor(flags) ==
    IF Len(flags) < 3 THEN Append(flags, "NEUTRAL_SIGNAL") ELSE flags

\* generate_semantic_flags on the features f when the clock shows now.
generate_semantic_flags(f, now) ==
    LET news == NewsAnalysis(f.news_list, now)
    IN  [flags |-> FlagFloor(Append(ThresholdFlags(f), news.flag)),
         news_analysis |-> news.news_analysis]

\* Hours the clock advances at a tick, and the ticks between two calls.
TickHours == 30
MaxTicks == 2
StartHour == 100

\* A call of generate_semantic_flags on the features at hand.
GenerateFlags ==
    /\ classifier.first = None
    /\ classifier' =
           [classifier EXCEPT
               !.first = Some(generate_semantic_flags(classifier.features,
                                                      classifier.now))]
    /\ UNCHANGED <<args, res, prev, tool, crew, calls, cache, api, fetch>>

\* Time passes between the two calls.
Tick ==
    /\ classifier.first # None
    /\ classifier.second = None
    /\ classifier.ticks < MaxTicks
    /\ classifier' = [classifier EXCEPT !.now = @ + TickHours,
                                        !.ticks = @ + 1]
    /\ UNCHANGED <<args, res, prev, tool, crew, calls, cache, api, fetch>>

\* A second call with the same arguments.
GenerateFlagsAgain ==
    /\ classifier.first # None
    /\ classifier.second = None
    /\ classifier' =
           [classifier EXCEPT
               !.second = Some(generate_semantic_flags(classifier.features,
                                                       classifier.now))]
    /\ UNCHANGED <<args, res, prev, tool, crew, calls, cache, api, fetch>>

ClassifierStart(features) ==
    /\ classifier = [features |-> features, now |-> StartHour, ticks |-> 0,
                     first |-> None, second |-> None, restated |-> None,
                     profile |-> None]
    /\ args = NoArguments
    /\ res = NoCall
    /\ prev = NoCall
    /\ cache = Idle
    /\ api = Idle
    /\ fetch = Idle
    /\ tool = Idle
    /\ crew = Idle
    /\ calls = Idle

ClassifierNext == GenerateFlags \/ Tick \/ GenerateFlagsAgain

\* A relevant item with a positive title.
GoodNews ==
    [direct |-> TRUE, event |-> TRUE, listing |-> FALSE,
     published_at |-> At(90), keywords |-> <<1, 0>>]

\* The features on a grid of the values the thresholds turn on; ROE is a
\* count of 1/1000 (30 is 0.03, 300 is 0.30, 3000 is 3.0, 10000 is 10.0).
FeatureGrid ==
    [ret_3m : {-20, 0, 10, 25},
     ret_1m : {-20, -10, 0, 10, 20},
     rsi : {15, 25, 50, 75, 85},
     volatility : {10, 30, 60},
     pe : {Missing, NaN, Float(10), Float(30)},
     is_korean : BOOLEAN,
     roe : {Missing, NaN, Float(30), Float(300), Float(3000), Float(10000)},
     vix_or_vkospi : {Missing, Float(10), Float(20), Float(30)},
     news_list : {None, Some(<<GoodNews>>)}]

FlagsInit == \E features \in FeatureGrid : ClassifierStart(features)

SpecFlags == FlagsInit /\ [][ClassifierNext]_vars

\* The same call with ROE, given as a fraction below 1, restated as the
\* percentage it stands for.
GenerateFlagsRestated ==
    /\ classifier.first # None
    /\ classifier.restated = None
    /\ IsNumber(classifier.features.roe)
    /\ 0 < classifier.features.roe.v
    /\ classifier.features.roe.v < 1000
    /\ classifier' =
           [classifier EXCEPT
               !.restated =
                   Some(generate_semantic_flags(
                            [classifier.features EXCEPT
                                !.roe = Float(100 * classifier.features.roe.v)],
                            classifier.now))]
    /\ UNCHANGED <<args, res, prev, tool, crew, calls, cache, api, fetch>>

\* QuantitativeAnalysisTool._run: get_action_profile(data_flags, rsi=rsi) on
\* the flags generate_semantic_flags returned.
SelectFromFlags ==
    /\ classifier.first # None
    /\ classifier.profile = None
    /\ classifier' =
           [classifier EXCEPT
               !.profile =
                   Some(get_action_profile(classifier.first[1].flags,
                                           Some(classifier.features.rsi)))]
    /\ UNCHANGED <<args, res, prev, tool, crew, calls, cache, api, fetch>>

\* The features on a grid that is fine in RSI, P/E and ROE (5 is 0.005,
\* 100 is 0.10, 500 is 0.5, 30000 is 30.0).
ClassifyGrid ==
    [ret_3m : {-20, 10, 25},
     ret_1m : {0, 10},
     rsi : {15, 20, 21, 25, 30, 50, 85},
     volatility : {10, 30},
     pe : {Missing, NaN, Float(10), Float(30)},
     is_korean : BOOLEAN,
     roe : {Missing, NaN, Float(5), Float(30), Float(100), Float(300),
            Float(500), Float(3000), Float(10000), Float(30000)},
     vix_or_vkospi : {Missing, Float(30)},
     news_list : {None}]

ClassifyInit == \E features \in ClassifyGrid : ClassifierStart(features)

ClassifyNext == GenerateFlags \/ GenerateFlagsRestated \/ SelectFromFlags

SpecClassify == ClassifyInit /\ [][ClassifyNext]_vars

\* The news lists of at most two items, on quiet and on lively features.
NewsLists ==
    {None, Some(<<>>)}
    \cup {Some(<<a>>) : a \in NewsItems}
    \cup {Some(<<a, b>>) : a, b \in NewsItems}

Quiet ==
    [ret_3m |-> 10, ret_1m |-> 0, rsi |-> 50, volatility |-> 30,
     pe |-> Missing, is_korean |-> FALSE, roe |-> Missing,
     vix_or_vkospi |-> Missing, news_list |-> None]

NewsInit ==
    \E news_list \in NewsLists :
        ClassifierStart([Quiet EXCEPT !.news_list = news_list])

SpecNews == NewsInit /\ [][ClassifierNext]_vars

-----------------------------------------------------------------------------
(* utils/score_fusion.py: compute_probabilities, statement by statement,
   called from several threads *)

\* A k_params dictionary is a set of <<key, value>> pairs.
Get(d, key, default) ==
    IF \E kv \in d : kv[1] = key
    THEN (CHOOSE kv \in d : kv[1] = key)[2]
    ELSE default

\* A variant of the first section that writes the defaults it falls back on
\* into the dictionary of the caller.
KParamsAfter_FillsCaller(k_params) ==
    IF k_params = None THEN None
    ELSE Some(k_params[1]
              \cup {<<key, 12>> : key \in
                       {k \in {"kM", "kI"} :
                           \A kv \in k_params[1] : kv[1] # k}}
              \cup {<<key, 10>> : key \in
                       {k \in {"kS", "kT"} :
                           \A kv \in k_params[1] : kv[1] # k}})

\* The dictionary of the caller after "1. Default Parameters":
\* "k_params = {...}" binds the local name, and .get writes nothing.
KParamsAfter(k_params) == k_params

\* 1. Default Parameters: the four constants the call works with.
ReadParams(k_params) ==
    LET d == IF k_params = None
             THEN {<<"kM", 12>>, <<"kI", 12>>, <<"kS", 10>>, <<"kT", 10>>}
             ELSE k_params[1]
    IN  [kM |-> Get(d, "kM", 12), kI |-> Get(d, "kI", 12),
         kS |-> Get(d, "kS", 10), kT |-> Get(d, "kT", 10)]

\* 2. Calibration (Score -> Prob)
Calibration(a, k) ==
    LET pS == sigmoid(a.S - 50, k.kS)
    IN  [pM |-> sigmoid(a.M - 50, k.kM),
         pS |-> pS,
         pT |-> sigmoid(a.T - 50, k.kT),
         pI |-> IF a.I # None THEN sigmoid(a.I[1] - 50, k.kI) ELSE pS,
         I_val_for_conf |-> IF a.I # None THEN a.I[1] ELSE a.S]

\* 3. Conditional Gating (Top-down)
Gating(p) ==
    LET gM == GateM(p.pM)
        pI_given_M == Conditioned(p.pI, gM)
        gI == GateI(pI_given_M)
        gT == GateT(p.pM)
    IN  [gM |-> gM, pI_given_M |-> pI_given_M, gI |-> gI,
         pS_given_I |-> Conditioned(p.pS, gI), gT |-> gT,
         pT_adj |-> Conditioned(p.pT, gT)]

\* 4. to 6. Fusion, Decision Bands and Edge Cases
Fusion(a, p, g) ==
    LET p_product == Mul(p.pM * g.pI_given_M, g.pS_given_I * g.pT_adj)
        p_up == Pow025(p_product)
        band == DecisionGrade(p_up)
        action == IF a.M < 25 THEN RiskOffStep(band) ELSE band
        flags1 == IF a.M < 25
                  THEN <<"risk_off_adjusted: " \o band \o "->" \o action>>
                  ELSE <<>>
        flags2 == IF RelativeStrength(a.I, a.S)
                  THEN Append(flags1, "flag_relative_strength_in_weak_sector")
                  ELSE flags1
    IN  [p_product |-> p_product, p_up |-> p_up, action |-> action,
         flags |-> IF a.I = None
                   THEN Append(flags2, "industry_score_fallback")
                   ELSE flags2]

\* 7. Confidence Calculation, and the dictionary returned.
Returned(a, p, g, f) ==
    LET D == MaxOf(MaxOf(a.M, p.I_val_for_conf), MaxOf(a.S, a.T))
             - MinOf(MinOf(a.M, p.I_val_for_conf), MinOf(a.S, a.T))
        conf_agree == CONF - clamp(D * PROB, 0, CONF)
        confidence == (7 * conf_agree + 3 * 60 * a.conf_quality) \div 10
    IN  [called |-> TRUE,
         p_up |-> Round4(f.p_up),
         action |-> f.action,
         confidence |-> RoundDiv(confidence, 60),
         confidence_level |-> map_confidence_level(confidence, CONF),
         breakdown |-> [pM |-> p.pM, pI |-> p.pI, pS |-> p.pS, pT |-> p.pT,
                        pI_given_M |-> g.pI_given_M,
                        pS_given_I |-> g.pS_given_I,
                        pT_adj |-> g.pT_adj, gM |-> g.gM, gI |-> g.gI,
                        gT |-> g.gT, p_product |-> f.p_product,
                        flags |-> f.flags],
         inputs |-> [M |-> a.M, I |-> a.I, S |-> a.S, T |-> a.T]]

\* The number of calls that run at once.
MaxCalls == 2

Threads == 1..MaxCalls

\* The local variables of a call; a section not yet run has left None.
NewFrame(a) ==
    [pc |-> "params", args |-> a, k |-> None, p |-> None, g |-> None,
     f |-> None, result |-> None]

\* Thread t runs section 1 of its call.
StepParams(t) ==
    /\ calls.frames[t].pc = "params"
    /\ calls' = [calls EXCEPT
           !.k_params = KParamsAfter(calls.k_params),
           !.frames[t].k = Some(ReadParams(calls.k_params)),
           !.frames[t].pc = "calibration"]
    /\ UNCHANGED <<args, res, prev, tool, crew, classifier, cache, api, fetch>>

\* Thread t runs section 2 of its call.
StepCalibration(t) ==
    /\ calls.frames[t].pc = "calibration"
    /\ calls' = [calls EXCEPT
           !.frames[t].p = Some(Calibration(calls.frames[t].args,
                                            calls.frames[t].k[1])),
           !.frames[t].pc = "gating"]
    /\ UNCHANGED <<args, res, prev, tool, crew, classifier, cache, api, fetch>>

\* Thread t runs section 3 of its call.
StepGating(t) ==
    /\ calls.frames[t].pc = "gating"
    /\ calls' = [calls EXCEPT
           !.frames[t].g = Some(Gating(calls.frames[t].p[1])),
           !.frames[t].pc = "fusion"]
    /\ UNCHANGED <<args, res, prev, tool, crew, classifier, cache, api, fetch>>

\* Thread t runs sections 4 to 6 of its call.
StepFusion(t) ==
    /\ calls.frames[t].pc = "fusion"
    /\ calls' = [calls EXCEPT
           !.frames[t].f = Some(Fusion(calls.frames[t].args,
                                       calls.frames[t].p[1],
                                       calls.frames[t].g[1])),
           !.frames[t].pc = "confidence"]
    /\ UNCHANGED <<args, res, prev, tool, crew, classifier, cache, api, fetch>>

\* Thread t runs section 7 of its call and returns.
StepReturn(t) ==
    /\ calls.frames[t].pc = "confidence"
    /\ calls' = [calls EXCEPT
           !.frames[t].result = Some(Returned(calls.frames[t].args,
                                              calls.frames[t].p[1],
                                              calls.frames[t].g[1],
                                              calls.frames[t].f[1])),
           !.frames[t].pc = "done"]
    /\ UNCHANGED <<args, res, prev, tool, crew, classifier, cache, api, fetch>>

\* The arguments of the concurrent calls, and the dictionaries the callers
\* share: none, an empty one, and two that set some of the constants.
ConcurrentArguments ==
    {[M |-> 50, I |-> None, S |-> 50, T |-> 50, conf_quality |-> 10000],
     [M |-> 80, I |-> Some(70), S |-> 75, T |-> 60, conf_quality |-> 10000],
     [M |-> 10, I |-> None, S |-> 10, T |-> 10, conf_quality |-> 10000],
     [M |-> 20, I |-> Some(20), S |-> 90, T |-> 100, conf_quality |-> 5000],
     [M |-> 90, I |-> Some(90), S |-> 90, T |-> 90, conf_quality |-> 0]}

Dictionaries ==
    {None, Some({}), Some({<<"kI", 10>>}),
     Some({<<"kM", 10>>, <<"kS", 12>>, <<"kT", 12>>})}

ConcurrentInit ==
    /\ \E k_params \in Dictionaries :
       \E a \in [Threads -> ConcurrentArguments] :
          calls = [k_params |-> k_params, given |-> k_params,
                   frames |-> [t \in Threads |-> NewFrame(a[t])]]
    /\ args = NoArguments
    /\ res = NoCall
    /\ prev = NoCall
    /\ cache = Idle
    /\ api = Idle
    /\ fetch = Idle
    /\ tool = Idle
    /\ crew = Idle
    /\ classifier = Idle

ConcurrentNext ==
    \E t \in Threads :
        \/ StepParams(t)
        \/ StepCalibration(t)
        \/ StepGating(t)
        \/ StepFusion(t)
        \/ StepReturn(t)

SpecConcurrent == ConcurrentInit /\ [][ConcurrentNext]_vars

-----------------------------------------------------------------------------
(* utils/cache.py.  The clock is in minutes; a file is named by the pair of
   the ticker and the date, for which the md5 digest of "<ticker>_<date>"
   stands, and holds what json.dump wrote. *)

\* CACHE_DURATION = timedelta(hours=1), in minutes.
CACHE_DURATION == 60

\* The minutes after which strftime("%Y-%m-%d") gives the next date.
DayMinutes == 1440

\* The minutes the clock advances by, and how often it does.
CacheTickMinutes == 20
MaxCacheTicks == 5

Tickers == {"AAPL", "MSFT"}

\* The results handed to save_to_cache: a dictionary whose payload is a
\* string, a tuple, or a set.
CacheResults == [payload : {"str", "tuple", "set"}]

\* json.dump of a result: a tuple is written as an array, a set raises
\* TypeError (None); a dictionary of strings, numbers, lists and
\* dictionaries is written as it is.
JsonDump(result) ==
    IF "payload" \notin DOMAIN result THEN Some(result)
    ELSE CASE result.payload = "set" -> None
           [] result.payload = "tuple" -> Some([payload |-> "array"])
           [] OTHER -> Some(result)

\* json.load of what json.dump wrote: an array is read as a list.
JsonLoad(text) ==
    IF "payload" \in DOMAIN text /\ text.payload = "array"
    THEN [payload |-> "list"]
    ELSE text

\* _get_cache_path(ticker): CACHE_DIR / md5(f"{ticker}_{today}").json, with
\* today = datetime.now().strftime("%Y-%m-%d")
_get_cache_path(ticker, now) == <<ticker, now \div DayMinutes>>

Unlink(files, path) == [p \in DOMAIN files \ {path} |-> files[p]]

Write(files, path, content) ==
    [p \in DOMAIN files \cup {path} |->
        IF p = path THEN content ELSE files[p]]

\* if age > CACHE_DURATION
Expired(age) == age > CACHE_DURATION

\* get_cached_analysis(ticker): what it returns and the files it leaves.
get_cached_analysis(files, ticker, now) ==
    LET cache_path == _get_cache_path(ticker, now)
    IN  IF cache_path \notin DOMAIN files
        THEN [returned |-> None, files |-> files]
        ELSE IF ~files[cache_path].complete
        THEN [returned |-> None, files |-> files]
        ELSE IF Expired(now - files[cache_path].cached_at)
        THEN [returned |-> None, files |-> Unlink(files, cache_path)]
        ELSE [returned |-> Some(JsonLoad(files[cache_path].result)),
              files |-> files]

\* save_to_cache(ticker, result): open(cache_path, 'w') empties the file,
\* and a json.dump that raises leaves it incomplete.
save_to_cache(files, ticker, result, now) ==
    LET cache_path == _get_cache_path(ticker, now)
    IN  IF JsonDump(result) = None
        THEN [returned |-> FALSE,
              files |-> Write(files, cache_path, [complete |-> FALSE])]
        ELSE [returned |-> TRUE,
              files |-> Write(files, cache_path,
                              [complete |-> TRUE, ticker |-> ticker,
                               cached_at |-> now,
                               result |-> JsonDump(result)[1]])]

\* clear_cache(ticker): the file of the ticker and of today, or every file.
clear_cache(files, ticker, now) ==
    IF ticker # None
    THEN Unlink(files, _get_cache_path(ticker[1], now))
    ELSE [p \in {} |-> 0]

\* The state of the cache module: the clock, the files, for every ticker
\* the last save that succeeded and that no later save or clear_cache
\* followed, and the get_cached_analysis call just made.
CacheStart(now) ==
    [now |-> now, ticks |-> 0, files |-> [p \in {} |-> 0],
     saved |-> [t \in Tickers |-> None], last |-> None]

CacheSave ==
    /\ \E ticker \in Tickers, result \in CacheResults :
          LET call == save_to_cache(cache.files, ticker, result, cache.now)
          IN  cache' =
                  [cache EXCEPT
                      !.files = call.files,
                      !.saved[ticker] =
                          IF call.returned
                          THEN Some([at |-> cache.now, result |-> result])
                          ELSE None,
                      !.last = None]
    /\ UNCHANGED <<args, res, prev, tool, crew, classifier, calls, api, fetch>>

CacheGet ==
    /\ \E ticker \in Tickers :
          LET call == get_cached_analysis(cache.files, ticker, cache.now)
          IN  cache' =
                  [cache EXCEPT
                      !.files = call.files,
                      !.last = Some([ticker |-> ticker,
                                     returned |-> call.returned])]
    /\ UNCHANGED <<args, res, prev, tool, crew, classifier, calls, api, fetch>>

CacheClear ==
    /\ \E ticker \in {None} \cup {Some(t) : t \in Tickers} :
          cache' =
              [cache EXCEPT
                  !.files = clear_cache(cache.files, ticker, cache.now),
                  !.saved = [t \in Tickers |->
                                IF ticker = None \/ ticker = Some(t)
                                THEN None ELSE cache.saved[t]],
                  !.last = None]
    /\ UNCHANGED <<args, res, prev, tool, crew, classifier, calls, api, fetch>>

CacheTick ==
    /\ cache.ticks < MaxCacheTicks
    /\ cache' = [cache EXCEPT !.now = cache.now + CacheTickMinutes,
                              !.ticks = cache.ticks + 1,
                              !.last = None]
    /\ UNCHANGED <<args, res, prev, tool, crew, classifier, calls, api, fetch>>

CacheInit ==
    \* the clock starts at 10:00 or at 23:00 of day 0
    /\ \E now \in {600, 1380} : cache = CacheStart(now)
    /\ args = NoArguments
    /\ res = NoCall
    /\ prev = NoCall
    /\ tool = Idle
    /\ crew = Idle
    /\ classifier = Idle
    /\ calls = Idle
    /\ api = Idle
    /\ fetch = Idle

CacheNext == CacheSave \/ CacheGet \/ CacheClear \/ CacheTick

SpecCache == CacheInit /\ [][CacheNext]_vars

-----------------------------------------------------------------------------
(* api.py: analyze_stock, with parse_crew_output and
   create_fallback_response of agent_engine/crew.py.  The texts of a comment
   are written in ASCII: "MarketEnvError" = 시장 환경 분석 중 오류가
   발생했습니다., "AnalysisFailed" = 분석 실패. *)

\* What crew.kickoff() does: it raises, or it returns an output that holds
\* a complete JSON report, no JSON at all, or a JSON object that lacks a
\* required field.
CrewOutcomes == {"raised", "report", "no_json", "missing_field"}

\* create_fallback_response(ticker, raw_output)
create_fallback_response ==
    [action |-> "Hold", market_score |-> 5,
     overall_comment |-> [summary |-> <<"ConversionProblem">>,
                          market_env |-> "MarketEnvError"],
     _error |-> "JSON parsing failed, fallback response generated"]

\* parse_crew_output(crew_result, ticker): the parsed report, or the
\* fallback when json.loads or the validation of the fields raises.
parse_crew_output(outcome, market_score) ==
    IF outcome = "report"
    THEN [action |-> "Sell", market_score |-> market_score,
          overall_comment |-> [summary |-> <<"SummaryOfReport">>,
                               market_env |-> "MarketEnvOfReport"]]
    ELSE create_fallback_response

\* run_agentic_analysis as analyze_stock sees it: the parsed result, with
\* the action of the strategy log written over the parsed one.
AgentResult(outcome, market_score, strategy_action) ==
    LET parsed_result == parse_crew_output(outcome, market_score)
    IN  IF strategy_action # None
        THEN [parsed_result EXCEPT !.action = strategy_action[1]]
        ELSE parsed_result

\* 5. Force Connect Summary with Direct News: the summary with the suffix
\* that each of the three branches appends.
Summary(current_summary) ==
    current_summary \o <<"NewsSuffix">>

\* 7. CONSTRUCT RESPONSE (DIRECT FROM AGENT)
Response(ticker, agent_result) ==
    [ticker |-> ticker,
     action |-> agent_result.action,
     market_score |-> IF agent_result.market_score # 0
                      THEN agent_result.market_score ELSE 5,
     overall_comment |->
         [agent_result.overall_comment EXCEPT
             !.summary = Summary(agent_result.overall_comment.summary)],
     _agent_mode |-> TRUE]

\* The response of the exception handler.
ErrorResponse(ticker) ==
    [ticker |-> ticker, action |-> "Hold", market_score |-> 5,
     overall_comment |-> [summary |-> <<"ErrorDuringAnalysis">>,
                          market_env |-> "AnalysisFailed"],
     _error |-> TRUE]

\* if use_cache: save_to_cache(ticker, response)
SaveResponse(files, use_cache, ticker, response, now) ==
    IF use_cache THEN save_to_cache(files, ticker, response, now).files
    ELSE files

\* analyze_stock(ticker, use_cache): what it returns, whether that came from
\* the cache, and the files it leaves, in a world that fixes what the crew
\* and the price history do.  An empty price history raises HTTPException,
\* which the handler catches like a failure of the crew.
analyze_stock(files, ticker, use_cache, world, now) ==
    LET cached == IF use_cache THEN get_cached_analysis(files, ticker, now)
                  ELSE [returned |-> None, files |-> files]
        outcome == world.outcome
        prices == world.prices
        agent_result == AgentResult(outcome, world.market_score,
                                    world.strategy_action)
        response == Response(ticker, agent_result)
    IN  IF cached.returned # None
        THEN [response |-> cached.returned[1], cache_hit |-> TRUE,
              files |-> cached.files]
        ELSE IF outcome = "raised" \/ prices = "empty"
        THEN [response |-> ErrorResponse(ticker), cache_hit |-> FALSE,
              files |-> cached.files]
        ELSE [response |-> response, cache_hit |-> FALSE,
              files |-> SaveResponse(cached.files, use_cache, ticker,
                                     response, now)]

\* One request served from its beginning to its end.  The record of the
\* direct calls of the cache module (saved, last) is not kept up here.
AnalyzeStock ==
    /\ \E ticker \in {"AAPL"}, use_cache \in BOOLEAN,
          outcome \in CrewOutcomes, market_score \in {0, 7},
          strategy_action \in {None, Some("Buy")},
          prices \in {"empty", "rows"} :
          LET world == [outcome |-> outcome, market_score |-> market_score,
                        strategy_action |-> strategy_action,
                        prices |-> prices]
              call == analyze_stock(cache.files, ticker, use_cache, world,
                                    cache.now)
          IN  /\ api' = [called |-> TRUE, ticker |-> ticker,
                         cache_hit |-> call.cache_hit,
                         response |-> call.response]
              /\ cache' = [cache EXCEPT !.files = call.files, !.last = None]
    /\ UNCHANGED <<args, res, prev, tool, crew, classifier, calls, fetch>>

ApiInit ==
    /\ cache = CacheStart(1380)
    /\ api = Idle
    /\ args = NoArguments
    /\ res = NoCall
    /\ prev = NoCall
    /\ tool = Idle
    /\ crew = Idle
    /\ classifier = Idle
    /\ calls = Idle
    /\ fetch = Idle

ApiNext == AnalyzeStock \/ CacheTick

SpecApi == ApiInit /\ [][ApiNext]_vars

-----------------------------------------------------------------------------
(* agent_engine/parallel_tools.py: fetch_all_data_parallel.  The caller
   submits the four tasks, the worker threads of the executor run them, and
   the caller collects the futures in the order in which they complete. *)

\* The keys of tasks, in the order of the dictionary.
TaskKeys == <<"price_data", "market_data", "news_data", "fundamental_data">>

Keys == {TaskKeys[i] : i \in 1..Len(TaskKeys)}

\* What a task does: tool._run(ticker) returns the text of that tool, or it
\* raises an Exception with a message.
TaskReturns(key, ticker) ==
    [raised |-> FALSE, value |-> <<key, "of", ticker>>]

TaskRaises(key, ticker) ==
    [raised |-> TRUE, message |-> <<key, "failed">>]

\* f"Error: {str(e)}"
ErrorString(message) == <<"Error: ">> \o message

\* A variant of the loop body in which a failure empties what was collected.
Store_FailureClears(results, key, outcome) ==
    IF outcome.raised
    THEN [k \in {key} |-> ErrorString(outcome.message)]
    ELSE [k \in DOMAIN results \cup {key} |->
             IF k = key THEN outcome.value ELSE results[k]]

\* The body of the loop: results[key] = future.result(), or the error
\* string when future.result() raises what the task raised.
Store(results, key, outcome) ==
    [k \in DOMAIN results \cup {key} |->
        IF k # key THEN results[k]
        ELSE IF outcome.raised THEN ErrorString(outcome.message)
        ELSE outcome.value]

\* results.get(key, 'No data')
GetResult(results, key) ==
    IF key \in DOMAIN results THEN results[key] ELSE <<"No data">>

\* The returned dictionary, but for the elapsed time.
FetchReturned(results) ==
    [combined_summary |-> [k \in Keys |-> GetResult(results, k)],
     individual_results |-> results]

FetchStart(ticker) ==
    [pc |-> "submit", ticker |-> ticker, submitted |-> 0,
     state |-> [k \in Keys |-> "new"],
     outcome |-> [k \in Keys |-> None],
     results |-> [k \in {} |-> 0], order |-> <<>>, returned |-> None]

\* executor.submit(task_func), one task after the other.
Submit ==
    /\ fetch.pc = "submit"
    /\ LET key == TaskKeys[fetch.submitted + 1]
       IN  fetch' =
               [fetch EXCEPT
                   !.state[key] = "pending",
                   !.submitted = fetch.submitted + 1,
                   !.pc = IF fetch.submitted + 1 = Len(TaskKeys)
                          THEN "collect" ELSE "submit"]
    /\ UNCHANGED <<args, res, prev, tool, crew, classifier, calls, cache, api>>

\* A worker thread takes a submitted task.
Run(key) ==
    /\ fetch.state[key] = "pending"
    /\ fetch' = [fetch EXCEPT !.state[key] = "running"]
    /\ UNCHANGED <<args, res, prev, tool, crew, classifier, calls, cache, api>>

\* The task ends, by returning or by raising, and its future is finished.
Finish(key) ==
    /\ fetch.state[key] = "running"
    /\ \E outcome \in {TaskReturns(key, fetch.ticker),
                       TaskRaises(key, fetch.ticker)} :
          fetch' = [fetch EXCEPT !.state[key] = "finished",
                                 !.outcome[key] = Some(outcome)]
    /\ UNCHANGED <<args, res, prev, tool, crew, classifier, calls, cache, api>>

\* for future in as_completed(future_to_key): one finished future that the
\* loop has not seen yet.
Collect(key) ==
    /\ fetch.pc = "collect"
    /\ fetch.state[key] = "finished"
    /\ key \notin DOMAIN fetch.results
    /\ fetch' = [fetch EXCEPT
                    !.results = Store(fetch.results, key,
                                      fetch.outcome[key][1]),
                    !.order = Append(fetch.order, key)]
    /\ UNCHANGED <<args, res, prev, tool, crew, classifier, calls, cache, api>>

\* as_completed is exhausted, the executor is shut down, and the function
\* returns.
FetchReturn ==
    /\ fetch.pc = "collect"
    /\ Len(fetch.order) = Len(TaskKeys)
    /\ fetch' = [fetch EXCEPT !.pc = "returned",
                              !.returned = Some(FetchReturned(fetch.results))]
    /\ UNCHANGED <<args, res, prev, tool, crew, classifier, calls, cache, api>>

FetchInit ==
    /\ fetch = FetchStart("AAPL")
    /\ args = NoArguments
    /\ res = NoCall
    /\ prev = NoCall
    /\ tool = Idle
    /\ crew = Idle
    /\ classifier = Idle
    /\ calls = Idle
    /\ cache = Idle
    /\ api = Idle

FetchNext ==
    \/ Submit
    \/ \E key \in Keys : Run(key)
    \/ \E key \in Keys : Finish(key)
    \/ \E key \in Keys : Collect(key)
    \/ FetchReturn

SpecFetch == FetchInit /\ [][FetchNext]_vars

-----------------------------------------------------------------------------
(* What the claims are stated with *)

Actions == {grade_order[i] : i \in 1..5}

HasFlag(r, f) ==
    \E i \in 1..Len(r.breakdown.flags) : r.breakdown.flags[i] = f

RiskOffFlag(old, new) == "risk_off_adjusted: " \o old \o "->" \o new

RiskOffFlags == {RiskOffFlag(a, b) : a, b \in Actions}

\* The number of risk_off_adjusted entries among the flags of r.
RiskOffCount(r) ==
    Cardinality({i \in 1..Len(r.breakdown.flags) :
                    r.breakdown.flags[i] \in RiskOffFlags})

\* The band of p_up read off the reported product: p_up >= t iff
\* p_product >= t^4.
BandOfProduct(p) ==
    IF Leq(<<81450625, 0>>, p) THEN "AggressiveBuy"
    ELSE IF Leq(<<24010000, 0>>, p) THEN "Buy"
    ELSE IF Leq(<<2560000, 0>>, p) THEN "Hold"
    ELSE IF Leq(<<10000, 0>>, p) THEN "Sell"
    ELSE "AggressiveSell"

\* One step toward "AggressiveSell" on the ordered list, never past it.
OneStepDown(a) ==
    CASE a = "AggressiveBuy" -> "Buy"
      [] a = "Buy" -> "Hold"
      [] a = "Hold" -> "Sell"
      [] a = "Sell" -> "AggressiveSell"
      [] a = "AggressiveSell" -> "AggressiveSell"

\* Two calls, the one before and the one at hand, have been made.
Pair == res.called /\ prev.called

\* The two calls differ in no argument but the named one.
SameButM ==
    /\ prev.args.I = args.I /\ prev.args.S = args.S /\ prev.args.T = args.T
SameButI ==
    /\ prev.args.M = args.M /\ prev.args.S = args.S /\ prev.args.T = args.T
SameButS ==
    /\ prev.args.M = args.M /\ prev.args.I = args.I /\ prev.args.T = args.T
SameButT ==
    /\ prev.args.M = args.M /\ prev.args.I = args.I /\ prev.args.S = args.S

-----------------------------------------------------------------------------
(* C1 *)

\* C1: with the four scores equal to 50, the industry score given as 50 or
\* absent, p_up is 0.5 to within one unit of the fourth decimal, the action
\* is Hold and no risk_off_adjusted flag is recorded.
C1_NeutralIsHold ==
    (/\ res.called
     /\ args.M = 50 /\ args.S = 50 /\ args.T = 50
     /\ args.I \in {None, Some(50)})
    => /\ res.p_up \in 4999..5001
       /\ res.action = "Hold"
       /\ RiskOffCount(res) = 0

C1_Witness ==
    /\ res.called
    /\ args.M = 50 /\ args.I = Some(50) /\ args.S = 50 /\ args.T = 50
    /\ res.p_up = 5000

-----------------------------------------------------------------------------
(* C2 *)

-----------------------------------------------------------------------------
(* C3 *)

\* The call a was made without an industry score and the call b with the
\* stock score of a as the industry score, M, S and T being the same.
FallbackPair(a, ra, b, rb) ==
    /\ a.I = None /\ b.I = Some(a.S)
    /\ a.M = b.M /\ a.S = b.S /\ a.T = b.T

SameFusion(ra, rb) ==
    /\ ra.breakdown.pI = rb.breakdown.pI
    /\ ra.breakdown.gM = rb.breakdown.gM
    /\ ra.breakdown.gI = rb.breakdown.gI
    /\ ra.breakdown.gT = rb.breakdown.gT
    /\ ra.breakdown.pI_given_M = rb.breakdown.pI_given_M
    /\ ra.breakdown.pS_given_I = rb.breakdown.pS_given_I
    /\ ra.breakdown.pT_adj = rb.breakdown.pT_adj
    /\ ra.p_up = rb.p_up
    /\ ra.action = rb.action

\* C3, as claimed: compute_probabilities(M, None, S, T) and
\* compute_probabilities(M, S, S, T) give the same pI, gates, conditioned
\* probabilities, p_up and action.
C3_FallbackEquivalence ==
    Pair =>
        /\ FallbackPair(prev.args, prev.res, args, res)
               => SameFusion(prev.res, res)
        /\ FallbackPair(args, res, prev.args, prev.res)
               => SameFusion(res, prev.res)

\* What the two calls of a fallback pair do share: the call without an
\* industry score takes its own pS (the stock score calibrated with kS) as
\* pI; the two calls have the same gM, gT and pT_adj; and they agree on all
\* the claim lists when S = 50, where the calibrations with kS and with kI
\* both give 0.5, and on pI only then.
FallbackShared(ra, rb, S) ==
    /\ ra.breakdown.pI = ra.breakdown.pS
    /\ ra.breakdown.gM = rb.breakdown.gM
    /\ ra.breakdown.gT = rb.breakdown.gT
    /\ ra.breakdown.pT_adj = rb.breakdown.pT_adj
    /\ (S = 50) => SameFusion(ra, rb)
    /\ (ra.breakdown.pI = rb.breakdown.pI) => (S = 50)

\* C3, amended: the fallback substitutes the stock probability pS for pI,
\* not the stock score for the industry score.
C3_FallbackIsStockProbability ==
    Pair =>
        /\ FallbackPair(prev.args, prev.res, args, res)
               => FallbackShared(prev.res, res, args.S)
        /\ FallbackPair(args, res, prev.args, prev.res)
               => FallbackShared(res, prev.res, args.S)

C3_Witness ==
    /\ Pair
    /\ FallbackPair(prev.args, prev.res, args, res)
    /\ args.S = 90 /\ args.M = 80
    /\ prev.res.breakdown.pI = prev.res.breakdown.pS
    /\ prev.res.breakdown.pI # res.breakdown.pI
    /\ prev.res.p_up # res.p_up

-----------------------------------------------------------------------------
(* C4 *)

\* The industry score is given in both calls of the pair.
IndustryGiven == prev.args.I # None /\ args.I # None

\* C4, as claimed: with I (given), S and T fixed, p_up is non-decreasing in
\* M.
C4_MonotoneInM ==
    (Pair /\ SameButM /\ IndustryGiven) =>
        /\ prev.args.M <= args.M => prev.res.p_up <= res.p_up
        /\ args.M <= prev.args.M => res.p_up <= prev.res.p_up

\* C4, amended: with I (given), S and T fixed and none of them below the
\* neutral 50, p_up is non-decreasing in M.
C4_MonotoneInMAboveNeutral ==
    (/\ Pair /\ SameButM /\ IndustryGiven
     /\ args.I[1] >= 50 /\ args.S >= 50 /\ args.T >= 50) =>
        /\ prev.args.M <= args.M => prev.res.p_up <= res.p_up
        /\ args.M <= prev.args.M => res.p_up <= prev.res.p_up

C4_Witness ==
    /\ Pair /\ SameButM /\ IndustryGiven
    /\ args.I[1] > 50 /\ args.S > 50 /\ args.T > 50
    /\ prev.args.M = 42 /\ args.M = 80
    /\ prev.res.breakdown.gM = 0 /\ res.breakdown.gM = PROB
    /\ prev.res.p_up < res.p_up

-----------------------------------------------------------------------------
(* C5 *)

\* Neither gate is saturated to 0 in either call of the pair.
GatesOpen ==
    /\ prev.res.breakdown.gM > 0 /\ prev.res.breakdown.gI > 0
    /\ res.breakdown.gM > 0 /\ res.breakdown.gI > 0

\* p_up moves with the score: x, y are the score in the call before and in
\* the call at hand.
MovesWith(x, y) ==
    /\ x <= y => prev.res.p_up <= res.p_up
    /\ y <= x => res.p_up <= prev.res.p_up

-----------------------------------------------------------------------------
(* C6 *)

AllScores(v) ==
    args.M = v /\ args.I = Some(v) /\ args.S = v /\ args.T = v

\* C6, as claimed: (100,100,100,100) gives p_up at or above 0.95 and
\* AggressiveBuy; (0,0,0,0) gives p_up below 0.10 and AggressiveSell.
C6_Saturation ==
    res.called =>
        /\ AllScores(100) => (res.p_up >= 9500 /\ res.action = "AggressiveBuy")
        /\ AllScores(0) => (res.p_up < 1000 /\ res.action = "AggressiveSell")

\* C6, amended: (100,100,100,100) gives p_up at or above 0.95 and
\* AggressiveBuy; (0,0,0,0) gives a p_up in the Sell band, 0.10 <= p_up <
\* 0.40, and the risk-off override makes the action AggressiveSell.
C6_SaturationWithOverride ==
    res.called =>
        /\ AllScores(100) =>
              /\ res.p_up >= 9500
              /\ res.action = "AggressiveBuy"
              /\ RiskOffCount(res) = 0
        /\ AllScores(0) =>
              /\ res.p_up >= 1000 /\ res.p_up < 4000
              /\ res.action = "AggressiveSell"
              /\ HasFlag(res, "risk_off_adjusted: Sell->AggressiveSell")

C6_Witness ==
    /\ res.called /\ AllScores(0)
    /\ res.p_up = 1746
    /\ res.action = "AggressiveSell"

-----------------------------------------------------------------------------
(* C7 *)

\* The spread of the four raw scores, the stock score standing in for an
\* absent industry score.
Spread(a) ==
    LET i == IF a.I = None THEN a.S ELSE a.I[1]
        v == {a.M, i, a.S, a.T}
    IN  (CHOOSE x \in v : \A y \in v : y <= x)
        - (CHOOSE x \in v : \A y \in v : x <= y)

\* 0.7 * (1 - clamp(D/60, 0, 1)) + 0.3 * q as a count of 1/CONF, for a
\* spread D and a quality q given as a count of 1/PROB.
ClaimedConfidence(D, q) ==
    IF D >= 60 THEN 18 * q ELSE 7000 * (60 - D) + 18 * q

-----------------------------------------------------------------------------
(* C8 *)

ToolReturned == tool.called /\ tool.out.returned # None

ToolFlag(f) ==
    LET flags == tool.out.returned[1].flags
    IN  \E i \in 1..Len(flags) : flags[i] = f

\* C8, as claimed: a fusion run without an industry score, by
\* compute_probabilities with I = None or by DecisionFusionTool._run without
\* industry_score, reports the flag industry_score_fallback, and a run with
\* an industry score does not.
C8_FallbackIsFlagged ==
    /\ res.called =>
          ((args.I = None) <=> HasFlag(res, "industry_score_fallback"))
    /\ (ToolReturned /\ tool.out.returned[1].error = None) =>
          ((tool.args.industry_score = Missing)
               <=> ToolFlag("industry_score_fallback"))

-----------------------------------------------------------------------------
(* C9 *)

\* A score of the run cannot be converted to a number.
Unconvertible ==
    \/ tool.args.market_score.kind \in {"text", "none"}
    \/ tool.args.company_score.kind \in {"text", "none"}
    \/ tool.args.outlook_score.kind \in {"text", "none"}
    \/ tool.args.industry_score.kind = "text"

\* C9: no exception leaves the tool; when a score cannot be converted the
\* output has the Final Action analysis_failed, which is none of the five
\* labels, confidence 0 and the flag fusion_error, and no p_up; and an
\* output with one of the five labels is the output of a run whose scores
\* were all numbers.
C9_FailureIsSentinel ==
    tool.called =>
        /\ tool.out.raised = None
        /\ tool.out.returned # None
        /\ Unconvertible =>
              /\ tool.out.returned[1].final_action = "analysis_failed"
              /\ tool.out.returned[1].final_action \notin Actions
              /\ tool.out.returned[1].confidence = 0
              /\ tool.out.returned[1].p_up = None
              /\ ToolFlag("fusion_error")
        /\ tool.out.returned[1].final_action \in Actions =>
              /\ ~Unconvertible
              /\ tool.out.returned[1].error = None
              /\ tool.out.returned[1].p_up # None

C9_Witness ==
    /\ tool.called
    /\ tool.args.market_score = Float(5)
    /\ tool.args.company_score = Text
    /\ tool.out.raised = None
    /\ tool.out.returned = Some(FusionFailed("ValueError"))

-----------------------------------------------------------------------------
(* C10 *)

\* C10, as claimed: every result of run_agentic_analysis that carries a
\* confidence and a confidence_level has the level map_confidence_level
\* gives for that confidence: High from 0.85, Medium from 0.70, else Low.
C10_SingleMapping ==
    (/\ crew.called
     /\ crew.result.confidence # None
     /\ crew.result.confidence_level # None) =>
        LET c == crew.result.confidence[1]
        IN  crew.result.confidence_level[1] =
                (IF c >= 8500 THEN "High"
                 ELSE IF c >= 7000 THEN "Medium" ELSE "Low")

-----------------------------------------------------------------------------
(* C11 *)

\* The rules of the profile selector, numbered in their fixed order.
RuleHolds(n, F) ==
    CASE n = 1 -> "TECH_EXTREME_OVERBOUGHT" \in F
      [] n = 2 -> /\ "TREND_UP_STRONG" \in F
                  /\ F \cap {"MOMENTUM_SPIKE", "MOMENTUM_UP"} # {}
                  /\ F \cap {"VALUATION_EXPENSIVE",
                             "TECH_EXTREME_OVERBOUGHT"} = {}
      [] n = 3 -> /\ F \cap {"TECH_OVERSOLD", "VALUATION_CHEAP"} # {}
                  /\ F \cap {"QUALITY_WEAK", "TREND_DOWN"} = {}
      [] n = 4 -> {"QUALITY_STRONG", "VOLATILITY_LOW"} \subseteq F
                  /\ "TREND_DOWN" \notin F
      [] n = 5 -> /\ "MARKET_RISK_OFF" \in F
                  /\ F \cap {"VOLATILITY_LOW", "QUALITY_STRONG"} # {}
      [] n = 6 -> /\ F \cap {"NEWS_POSITIVE_EVENT",
                             "NEWS_NEGATIVE_EVENT"} # {}
                  /\ F \cap {"VOLATILITY_HIGH", "SPIKE_UP",
                             "SPIKE_DOWN"} # {}
      [] n = 7 -> "TECH_OVERBOUGHT" \in F
                  /\ "TECH_EXTREME_OVERBOUGHT" \notin F
      [] OTHER -> TRUE

RuleProfile ==
    <<"EXTREME_OVERBOUGHT_PAUSE", "MOMENTUM_CHASER", "VALUE_RECOVERY",
      "QUALITY_COMPOUNDER", "RISK_OFF_DEFENSIVE", "EVENT_DRIVEN",
      "OVERBOUGHT_CAUTIOUS", "NEUTRAL_WAIT">>

FirstRule(F) == CHOOSE n \in 1..8 :
    RuleHolds(n, F) /\ \A m \in 1..(n - 1) : ~RuleHolds(m, F)

\* C11: for every set of flags, however it is listed, get_action_profile
\* returns the profile of the first rule that holds in the order
\* 1 EXTREME_OVERBOUGHT_PAUSE, 2 MOMENTUM_CHASER, 3 VALUE_RECOVERY,
\* 4 QUALITY_COMPOUNDER, 5 RISK_OFF_DEFENSIVE, 6 EVENT_DRIVEN,
\* 7 OVERBOUGHT_CAUTIOUS, and NEUTRAL_WAIT when none holds; a set with
\* TECH_EXTREME_OVERBOUGHT and the momentum-chaser flags selects
\* EXTREME_OVERBOUGHT_PAUSE.
C11_FirstRuleWins ==
    classifier.called =>
        /\ classifier.profile.id = RuleProfile[FirstRule(classifier.flag_set)]
        /\ ({"TECH_EXTREME_OVERBOUGHT", "TREND_UP_STRONG", "MOMENTUM_UP"}
                \subseteq classifier.flag_set
            => classifier.profile.id = "EXTREME_OVERBOUGHT_PAUSE")

\* A set that holds the flags of rule 1 and of rule 2 (but for the exclusion
\* of the former by the latter) has been given the profile of rule 1.
C11_Witness ==
    /\ classifier.called
    /\ {"TECH_EXTREME_OVERBOUGHT", "TREND_UP_STRONG", "MOMENTUM_SPIKE"}
           \subseteq classifier.flag_set
    /\ "VALUATION_EXPENSIVE" \notin classifier.flag_set
    /\ classifier.profile.id = "EXTREME_OVERBOUGHT_PAUSE"
    /\ classifier.profile.decision_action = "Hold"

-----------------------------------------------------------------------------
(* C12 to C15 *)

NewsFlags ==
    {"NEWS_POSITIVE_EVENT", "NEWS_NEGATIVE_EVENT", "NEWS_MIXED_OR_THIN",
     "NEWS_LOW_RELEVANCE"}

\* The calls of generate_semantic_flags made so far: what each returned and
\* the hour at which it ran.
Made ==
    (IF classifier.first # None
     THEN {[result |-> classifier.first[1], at |-> StartHour]} ELSE {})
    \cup (IF classifier.second # None
          THEN {[result |-> classifier.second[1], at |-> classifier.now]}
          ELSE {})

\* The threshold rules give no flag for the features at hand.
NoThresholdFlag == ThresholdFlags(classifier.features) = <<>>

\* C12, as claimed: when the threshold rules give no flag,
\* generate_semantic_flags returns the one flag NEUTRAL_SIGNAL.
C12_OnlyNeutralSignal ==
    \A c \in Made :
        NoThresholdFlag => c.result.flags = <<"NEUTRAL_SIGNAL">>

\* C12, amended: when the threshold rules give no flag,
\* generate_semantic_flags returns two flags, the news flag and then
\* NEUTRAL_SIGNAL.
C12_NewsFlagAndNeutralSignal ==
    \A c \in Made :
        NoThresholdFlag =>
            /\ Len(c.result.flags) = 2
            /\ c.result.flags[1] \in NewsFlags
            /\ c.result.flags[2] = "NEUTRAL_SIGNAL"

\* The example of the claim (ret_3m 10, ret_1m 0, rsi 50, volatility 30,
\* nothing else given) has been classified.
C12_Witness ==
    /\ classifier.first # None
    /\ classifier.features = Quiet
    /\ classifier.first[1].flags = <<"NEWS_MIXED_OR_THIN", "NEUTRAL_SIGNAL">>

\* C13, as claimed: the list generate_semantic_flags returns holds at least
\* three flags.
C13_AtLeastThreeFlags ==
    \A c \in Made : Len(c.result.flags) >= 3

NewsFlagCount(flags) ==
    Cardinality({i \in 1..Len(flags) : flags[i] \in NewsFlags})

NewsFlagOf(flags) ==
    flags[CHOOSE i \in 1..Len(flags) : flags[i] \in NewsFlags]

\* The news flag the claim gives for a top item and its score in tenths.
ClaimedNewsFlag(item, score) ==
    IF score < 3 THEN "NEWS_LOW_RELEVANCE"
    ELSE IF item.keywords[1] > item.keywords[2] THEN "NEWS_POSITIVE_EVENT"
    ELSE IF item.keywords[2] > item.keywords[1] THEN "NEWS_NEGATIVE_EVENT"
    ELSE "NEWS_MIXED_OR_THIN"

\* C14: every result holds exactly one news flag: NEWS_MIXED_OR_THIN when
\* there is no news; otherwise the flag is judged on an item of the list
\* whose relevance score, a value of 0 to 1, no other item exceeds:
\* NEWS_LOW_RELEVANCE below 0.3, and from 0.3 on by the positive and
\* negative keywords of its title.
C14_OneNewsFlag ==
    \A c \in Made :
        LET news_list == classifier.features.news_list
            flags == c.result.flags
            analysis == c.result.news_analysis
        IN  /\ NewsFlagCount(flags) = 1
            /\ IF news_list = None \/ news_list = Some(<<>>)
               THEN NewsFlagOf(flags) = "NEWS_MIXED_OR_THIN"
               ELSE /\ analysis.top_news # None
                    /\ \E i \in 1..Len(news_list[1]) :
                          analysis.top_news[1] = news_list[1][i]
                    /\ analysis.relevance_score \in 0..10
                    /\ analysis.relevance_score =
                           calculate_news_relevance_score(
                               analysis.top_news[1], c.at)
                    /\ \A i \in 1..Len(news_list[1]) :
                          calculate_news_relevance_score(news_list[1][i], c.at)
                              <= analysis.relevance_score
                    /\ NewsFlagOf(flags) =
                           ClaimedNewsFlag(analysis.top_news[1],
                                           analysis.relevance_score)

\* Of two items the second, the more relevant, has decided the flag.
C14_Witness ==
    /\ classifier.first # None
    /\ classifier.features.news_list # None
    /\ Len(classifier.features.news_list[1]) = 2
    /\ classifier.first[1].news_analysis.top_news =
           Some(classifier.features.news_list[1][2])
    /\ classifier.features.news_list[1][1].keywords = <<1, 0>>
    /\ classifier.features.news_list[1][2].keywords = <<1, 2>>
    /\ classifier.first[1].news_analysis.relevance_score = 3
    /\ classifier.first[1].flags =
           <<"NEWS_NEGATIVE_EVENT", "NEUTRAL_SIGNAL">>

\* C15, as claimed: two calls of generate_semantic_flags with the same
\* arguments return the same flags and the same news analysis, whenever
\* they are made.
C15_Deterministic ==
    (classifier.first # None /\ classifier.second # None) =>
        classifier.first = classifier.second

-----------------------------------------------------------------------------
(* C16 *)

\* What a call on the arguments a with the dictionary k_params returns when
\* nothing else runs.
RunAlone(a, k_params) ==
    LET p == Calibration(a, ReadParams(k_params))
        g == Gating(p)
    IN  Returned(a, p, g, Fusion(a, p, g))

DefaultConstants(k_params) ==
    ReadParams(k_params) = [kM |-> kM, kI |-> kI, kS |-> kS, kT |-> kT]

\* C16: under any interleaving of concurrent compute_probabilities calls,
\* a call that has returned has returned what it returns when run alone, and
\* the k_params dictionary of the caller is as it was given.
C16_Reentrant ==
    /\ calls.k_params = calls.given
    /\ \A t \in Threads :
          calls.frames[t].pc = "done" =>
              LET a == calls.frames[t].args
              IN  /\ calls.frames[t].result = Some(RunAlone(a, calls.given))
                  /\ DefaultConstants(calls.given) =>
                         calls.frames[t].result =
                             Some(compute_probabilities(a.M, a.I, a.S, a.T,
                                                        a.conf_quality))

\* A call has returned while another, on other arguments and sharing a
\* dictionary that sets a constant, is between two of its sections.
C16_Witness ==
    /\ calls.given = Some({<<"kI", 10>>})
    /\ calls.frames[1].pc = "done"
    /\ calls.frames[2].pc = "gating"
    /\ calls.frames[1].args # calls.frames[2].args
    /\ calls.frames[1].result[1].action = "Buy"

-----------------------------------------------------------------------------
(* C17 to C20 *)

CalledWith(M, I, S, T) ==
    /\ res.called
    /\ args = [M |-> M, I |-> I, S |-> S, T |-> T, conf_quality |-> PROB]

\* C17: compute_probabilities(M=80, I=70, S=75, T=60, conf_quality=1.0) has
\* the three gates at 1, p_up in [0.70, 0.95) and so the action Buy, no
\* flags, confidence 0.7667 and the level Medium, which is the level
\* map_confidence_level gives for that confidence.
C17_Example ==
    CalledWith(80, Some(70), 75, 60) =>
        /\ res.breakdown.gM = PROB
        /\ res.breakdown.gI = PROB
        /\ res.breakdown.gT = PROB
        /\ 7000 <= res.p_up /\ res.p_up < 9500
        /\ res.action = "Buy"
        /\ res.breakdown.flags = <<>>
        /\ res.confidence = 7667
        /\ res.confidence_level = "Medium"
        /\ res.confidence_level =
               (IF res.confidence >= 8500 THEN "High"
                ELSE IF res.confidence >= 7000 THEN "Medium" ELSE "Low")

\* The example has been computed; its p_up is 0.8513.
C17_Witness ==
    /\ CalledWith(80, Some(70), 75, 60)
    /\ res.p_up = 8513
    /\ res.breakdown.pM = 9241
    /\ res.breakdown.pI = 8411
    /\ res.breakdown.pT_adj = 7311

\* Twice the distance of p_up from neutral, as a count of 1/PROB.
Distance(p_up) == 2 * (IF p_up >= 5000 THEN p_up - 5000 ELSE 5000 - p_up)

\* C18, as claimed: with conf = 2*|p_up - 0.5|, the level is Low for the
\* neutral inputs (M=50, S=50, T=50, no industry), where conf is 0, and for
\* M=90, S=90, T=90 it is High when conf >= 0.75 and Medium otherwise.
C18_LevelFollowsDistance ==
    /\ CalledWith(50, None, 50, 50) =>
           Distance(res.p_up) = 0 /\ res.confidence_level = "Low"
    /\ CalledWith(90, None, 90, 90) =>
           res.confidence_level =
               (IF Distance(res.p_up) >= 7500 THEN "High" ELSE "Medium")

\* C19, as claimed: M=10, S=10, T=10 without an industry score give
\* p_up <= 0.35, and every result with p_up <= 0.35 carries the flag
\* low_upside_probability.
C19_LowUpsideFlag ==
    /\ CalledWith(10, None, 10, 10) => res.p_up <= 3500
    /\ (res.called /\ res.p_up <= 3500) =>
           HasFlag(res, "low_upside_probability")

Between(x, a, b) == MinOf(a, b) <= x /\ x <= MaxOf(a, b)

Away(p) == IF p >= 5000 THEN p - 5000 ELSE 5000 - p

\* What C20 says of the gates, of the conditioned probabilities but for the
\* floor of the timing signal, and of p_product and p_up.
GatesAndProbabilitiesInRange ==
    LET b == res.breakdown
    IN  /\ 0 <= b.gM /\ b.gM <= PROB
        /\ 0 <= b.gI /\ b.gI <= PROB
        /\ 2000 <= b.gT /\ b.gT <= PROB
        /\ Between(b.pI_given_M, 5000, b.pI)
        /\ Between(b.pS_given_I, 5000, b.pS)
        /\ Between(b.pT_adj, 5000, b.pT)
        /\ Leq(<<0, 0>>, b.p_product) /\ Leq(b.p_product, <<LIMB, 0>>)
        /\ 0 <= res.p_up /\ res.p_up <= PROB

\* C20, as claimed: in every result gM and gI lie in [0,1] and gT in
\* [0.2,1]; each conditioned probability lies between 0.5 and its raw
\* probability; |pT_adj - 0.5| >= 0.2*|pT - 0.5|; p_product and p_up lie in
\* [0,1].
C20_Ranges ==
    res.called =>
        /\ GatesAndProbabilitiesInRange
        /\ PROB * Away(res.breakdown.pT_adj)
               >= 2000 * Away(res.breakdown.pT)

\* C20, amended: as claimed, the floor of the timing signal holding to the
\* four decimals of the result: |pT_adj - 0.5| >= 0.2*|pT - 0.5| - 0.0001.
C20_RangesToFourDecimals ==
    res.called =>
        /\ GatesAndProbabilitiesInRange
        /\ PROB * Away(res.breakdown.pT_adj) + PROB
               >= 2000 * Away(res.breakdown.pT)

\* A weak market has left the timing signal at its floor, a fifth of its
\* distance from neutral to the four decimals of the result.
C20_Witness ==
    /\ res.called
    /\ res.breakdown.gT = 2000
    /\ res.breakdown.gM = 0
    /\ res.breakdown.pT = 7311
    /\ res.breakdown.pT_adj = 5462
    /\ PROB * Away(res.breakdown.pT_adj) < 2000 * Away(res.breakdown.pT)

-----------------------------------------------------------------------------
(* C21 to C23 *)

\* C21: when the market gate is closed (M <= 42 with the default kM), two
\* calls with the same M, S, T and two industry scores, both given, have
\* pI_given_M = 0.5 and the same gI, pS_given_I, p_up and pre-override band.
C21_ClosedGateHidesIndustry ==
    (Pair /\ SameButI /\ IndustryGiven /\ args.M <= 42
          /\ prev.args.I # args.I) =>
        /\ res.breakdown.pM <= 3500
        /\ res.breakdown.pI_given_M = 5000
        /\ prev.res.breakdown.pI_given_M = 5000
        /\ res.breakdown.gI = prev.res.breakdown.gI
        /\ res.breakdown.pS_given_I = prev.res.breakdown.pS_given_I
        /\ res.p_up = prev.res.p_up
        /\ BandOfProduct(res.breakdown.p_product)
               = BandOfProduct(prev.res.breakdown.p_product)

\* At M = 42 the industry score has gone from 0 to 100, its probability
\* with it, and p_up has stayed.
C21_Witness ==
    /\ Pair /\ SameButI
    /\ args.M = 42
    /\ prev.args.I = Some(0) /\ args.I = Some(100)
    /\ prev.res.breakdown.pI < 200 /\ res.breakdown.pI > 9800
    /\ res.p_up = prev.res.p_up
    /\ res.breakdown.gM = 0

\* C22: flag_relative_strength_in_weak_sector is among the flags iff an
\* industry score is given with I < 30 and S > 75; the action is the band
\* of p_up with the risk-off override and nothing else, p_up is the fourth
\* root of the product and the confidence the one of the formula; the flag
\* never comes with industry_score_fallback.
C22_WeakSectorFlagInformational ==
    res.called =>
        LET band == BandOfProduct(res.breakdown.p_product)
        IN  /\ HasFlag(res, "flag_relative_strength_in_weak_sector")
                <=> (args.I # None /\ args.I[1] < 30 /\ args.S > 75)
            /\ res.action = (IF args.M < 25 THEN OneStepDown(band) ELSE band)
            /\ res.p_up = Round4(Pow025(res.breakdown.p_product))
            /\ res.confidence =
                   RoundDiv(ClaimedConfidence(Spread(args),
                                              args.conf_quality), 60)
            /\ ~(/\ HasFlag(res, "flag_relative_strength_in_weak_sector")
                 /\ HasFlag(res, "industry_score_fallback"))

\* A strong stock in a weak sector, the market not in risk-off: the flag is
\* the only one and the action is the band.
C22_Witness ==
    /\ res.called
    /\ args.M = 80 /\ args.I = Some(10) /\ args.S = 90
    /\ res.breakdown.flags = <<"flag_relative_strength_in_weak_sector">>
    /\ res.action = BandOfProduct(res.breakdown.p_product)

\* C23: with the default constants, whenever M < 25 the action is
\* AggressiveSell: the band before the override is never above Sell
\* (p_up < 0.40), and the flag recorded is the one from Sell or the one from
\* AggressiveSell to AggressiveSell.
C23_RiskOffIsAggressiveSell ==
    (res.called /\ args.M < 25) =>
        /\ res.action = "AggressiveSell"
        /\ res.p_up < 4000
        /\ BandOfProduct(res.breakdown.p_product)
               \in {"Sell", "AggressiveSell"}
        /\ RiskOffCount(res) = 1
        /\ \/ HasFlag(res, RiskOffFlag("Sell", "AggressiveSell"))
           \/ HasFlag(res, RiskOffFlag("AggressiveSell", "AggressiveSell"))

\* M = 24 with every other score at 100: the band is Sell, the action
\* AggressiveSell.
C23_Witness ==
    /\ res.called
    /\ args.M = 24 /\ args.I = Some(100) /\ args.S = 100 /\ args.T = 100
    /\ res.action = "AggressiveSell"
    /\ HasFlag(res, RiskOffFlag("Sell", "AggressiveSell"))

-----------------------------------------------------------------------------
(* C24 *)

\* The label a threshold reference gives for p_up.
ReferenceAction(reference, p_up) ==
    IF \E i \in 1..Len(reference.steps) : p_up >= reference.steps[i].at
    THEN reference.steps[CHOOSE i \in 1..Len(reference.steps) :
             /\ p_up >= reference.steps[i].at
             /\ \A j \in 1..(i - 1) : p_up < reference.steps[j].at].action
    ELSE reference.below

\* C24, as claimed: the Final Action the tool prints is the one its printed
\* threshold reference gives for the p_up it reports: AggressiveBuy from
\* 0.62, PassiveBuy from 0.57, Hold from 0.47, PassiveSell from 0.42, and
\* AggressiveSell below.
C24_ActionAgreesWithReference ==
    (ToolReturned /\ tool.out.returned[1].error = None) =>
        LET out == tool.out.returned[1]
        IN  /\ out.thresholds_reference.steps[1].at = 6200
            /\ out.thresholds_reference.steps[4].at = 4200
            /\ out.final_action =
                   ReferenceAction(out.thresholds_reference, out.p_up[1])

-----------------------------------------------------------------------------
(* C25 and C26 *)

QualityOutcome(flags) ==
    {flags[i] : i \in 1..Len(flags)} \cap {"QUALITY_STRONG", "QUALITY_WEAK"}

\* C25, as claimed: for ROE given as a fraction f with 0 < f < 1, the call
\* with roe = f and the call with roe = 100*f give the same quality flag:
\* QUALITY_STRONG when the percentage is above 20, QUALITY_WEAK when it is
\* below 5, neither otherwise.
C25_QualityWhateverRepresentation ==
    (classifier.first # None /\ classifier.restated # None) =>
        LET percentage == 100 * classifier.features.roe.v
            outcome == IF percentage > 20000 THEN {"QUALITY_STRONG"}
                       ELSE IF percentage < 5000 THEN {"QUALITY_WEAK"}
                       ELSE {}
        IN  /\ QualityOutcome(classifier.first[1].flags) = outcome
            /\ QualityOutcome(classifier.restated[1].flags) = outcome

TechFlags ==
    {"TECH_EXTREME_OVERBOUGHT", "TECH_OVERBOUGHT", "TECH_EXTREME_OVERSOLD",
     "TECH_OVERSOLD"}

\* C26: the flags of generate_semantic_flags hold at most one of the four
\* RSI flags; so for features with rsi <= 20 whose flags lack
\* VALUATION_CHEAP, get_action_profile on those flags does not return
\* VALUE_RECOVERY.
C26_ExtremeOversoldIsNotValueRecovery ==
    classifier.first # None =>
        LET flags == classifier.first[1].flags
            flag_set == {flags[i] : i \in 1..Len(flags)}
        IN  /\ Cardinality({i \in 1..Len(flags) : flags[i] \in TechFlags}) <= 1
            /\ (/\ classifier.profile # None
                /\ classifier.features.rsi <= 20
                /\ "VALUATION_CHEAP" \notin flag_set)
                   => classifier.profile[1].id # "VALUE_RECOVERY"

\* At rsi 20, with no cheap valuation, no weak quality and no downtrend, the
\* profile is not the value recovery that rsi 21 would give.
C26_Witness ==
    /\ classifier.first # None
    /\ classifier.profile # None
    /\ classifier.features.rsi = 20
    /\ classifier.features.ret_3m = 10
    /\ classifier.features.roe = Missing
    /\ classifier.features.pe = Missing
    /\ classifier.first[1].flags[1] = "TECH_EXTREME_OVERSOLD"
    /\ classifier.profile[1].id = "NEUTRAL_WAIT"

-----------------------------------------------------------------------------
(* C27 *)

-----------------------------------------------------------------------------
(* C28 *)

\* The file, if any, that still holds the entry a save wrote.
EntryLeft(ticker, at) ==
    \E p \in DOMAIN cache.files :
        /\ cache.files[p].complete
        /\ cache.files[p].ticker = ticker
        /\ cache.files[p].cached_at = at

\* C28, as claimed: after a save_to_cache that succeeded, with no clear_cache
\* and no later save since, a get_cached_analysis made at most CACHE_DURATION
\* after the save returns that result (as JSON reads it back), and one made
\* later returns None and leaves no file that holds the expired entry.
C28_CacheValidity ==
    (cache.last # None /\ cache.saved[cache.last[1].ticker] # None) =>
        LET ticker == cache.last[1].ticker
            save == cache.saved[ticker][1]
        IN  IF cache.now - save.at <= CACHE_DURATION
            THEN cache.last[1].returned
                     = Some(JsonLoad(JsonDump(save.result)[1]))
            ELSE /\ cache.last[1].returned = None
                 /\ ~EntryLeft(ticker, save.at)

-----------------------------------------------------------------------------
(* C29 *)

\* A response built from one of the two fallbacks: the comment of
\* create_fallback_response, or that of the exception handler.
FromFailedAnalysis(response) ==
    response.overall_comment.market_env \in {"MarketEnvError", "AnalysisFailed"}

\* C29, as claimed: analyze_stock saves no response derived from a failed
\* analysis: no cache file holds, and no cache hit serves, the response of
\* the exception handler or one built from create_fallback_response.
C29_NoFailedAnalysisCached ==
    /\ \A p \in DOMAIN cache.files :
          cache.files[p].complete => ~FromFailedAnalysis(cache.files[p].result)
    /\ (api.called /\ api.cache_hit) => ~FromFailedAnalysis(api.response)

-----------------------------------------------------------------------------
(* C30 *)

\* The entry a task's outcome stands for.
OwnEntry(key) ==
    IF fetch.outcome[key][1].raised
    THEN ErrorString(TaskRaises(key, fetch.ticker).message)
    ELSE TaskReturns(key, fetch.ticker).value

\* C30: fetch_all_data_parallel returns only after all four submitted tasks
\* have finished, and in whatever order they complete its
\* individual_results holds exactly the keys price_data, market_data,
\* news_data and fundamental_data, each with its own task's return value, or
\* with the "Error: ..." string of the Exception that task raised; an entry
\* once collected is not changed or dropped by the failure of another task.
C30_AllFourEntries ==
    /\ \A key \in DOMAIN fetch.results :
          /\ fetch.state[key] = "finished"
          /\ fetch.results[key] = OwnEntry(key)
    /\ DOMAIN fetch.results = {fetch.order[i] : i \in 1..Len(fetch.order)}
    /\ fetch.pc = "returned" =>
          /\ \A key \in Keys : fetch.state[key] = "finished"
          /\ DOMAIN fetch.returned[1].individual_results = Keys
          /\ \A key \in Keys :
                fetch.returned[1].individual_results[key] = OwnEntry(key)

\* The call has returned after the tasks completed in an order other than
\* that of their submission, the first collected having returned and a
\* later one having raised.
C30_Witness ==
    /\ fetch.pc = "returned"
    /\ fetch.order = <<"fundamental_data", "news_data", "price_data",
                       "market_data">>
    /\ ~fetch.outcome["fundamental_data"][1].raised
    /\ fetch.outcome["news_data"][1].raised
    /\ fetch.returned[1].individual_results["fundamental_data"]
           = <<"fundamental_data", "of", "AAPL">>
    /\ fetch.returned[1].individual_results["news_data"]
           = <<"Error: ", "news_data", "failed">>

====
